---- MODULE Spec2Model ----
(***************************************************************************)
(* Model of the volatility analytics backend of the options premium        *)
(* selling dashboard: the opportunity scorer (backend/scorer.py) and the   *)
(* IV rank engine (backend/calculator.py).                                 *)
(*                                                                         *)
(* Numbers are fixed-point integers, exact in the decimals the code        *)
(* rounds its values to:                                                   *)
(*   score                         thousandths of a point                  *)
(*   vrp_ratio, slope, rv_accel    thousandths  (round(x, 3))              *)
(*   vrp, skew_25d, IV values      hundredths   (round(x, 2))              *)
(*   iv_rank, iv_percentile        tenths       (round(x, 1))              *)
(* Binary floating-point representation error is not modelled.             *)
(***************************************************************************)
EXTENDS Integers, Sequences, FiniteSets, TLC

VARIABLES
    \* ---- score_opportunity (scorer.py) ----
    surface,        \* the VolSurface argument (the scalar fields the scorer reads)
    params,         \* the ScoringParams argument
    pc,             \* position inside score_opportunity
    score,          \* local `score`
    flags,          \* local `flags`
    regime,         \* local `regime`
    rec,            \* local `rec` ("" until assigned)
    suggestion,     \* locals delta / structure / dte / notional
    \* ---- compute_iv_rank (calculator.py) ----
    historical_ivs, \* the historical_ivs argument
    current_iv,     \* the current_iv argument of the latest call
    rank_result,    \* what the latest call returned: <<iv_rank, iv_percentile>>
    prev_iv,        \* the current_iv argument of the call before
    prev_result,    \* what the call before returned
    calls,          \* number of compute_iv_rank calls made on historical_ivs
    \* ---- compute_realized_vol (calculator.py) ----
    bars,           \* the bars argument: the log of each bar's close
    rv_result,      \* what the call did, by status: "none" before it, "ValueError", "RealizedVol"
    \* ---- compute_iv_from_price (backfill.py) ----
    sol_args,       \* compute_iv_from_price: its arguments (sigma: the vol that priced them, 0 if none)
    sol_pc,         \* where the call is: "idle", "guard", "intrinsic", "bisect", "done"
    sol_lo,         \* lo
    sol_hi,         \* hi
    sol_mid,        \* the last mid whose price was computed
    sol_iter,       \* loop iterations begun
    sol_result,     \* what the call returned
    \* ---- compute_atm_iv, compute_term_structure (calculator.py),
    \* ---- compute_atm_iv_historical (backfill.py) ----
    contracts,      \* the contracts argument: a list of OptionContract
    spot_price,     \* the spot_price argument
    target_dte,     \* the target_dte argument
    today,          \* date.today(), as a day number
    last_call,      \* the latest invocation: the function, the day it ran, its result
    prev_call,      \* the invocation before it
    \* ---- POST /api/scan, run_full_scan, _cron_loop (main.py) ----
    scan_day,       \* the current US/Eastern date, as a day number
    past_1830,      \* whether it is past 18:30 ET on scan_day
    first_weekday,  \* the weekday of day 0 (0 = Monday)
    has_client,     \* whether client is set (MARKETDATA_TOKEN was given)
    scan_results,   \* the scan_results table: the ET day of each row's scanned_at
    tasks,          \* every task created by trigger_scan: "created", "running", "done"
    scan_task,      \* _scan_task: an index into tasks, 0 for None
    scan_progress,  \* _scan_progress["status"]
    cron_pc,        \* _cron_loop: "off", "sleeping", "scanning", "retry_sleep", "retry_scanning"
    cron_wake_day,  \* the day of the scheduler's next candidate
    requests,       \* POST /api/scan requests handled
    response,       \* the response to the latest POST /api/scan
    \* ---- POST /api/earnings/refresh, GET /api/earnings/remaining (main.py) ----
    earn_today,     \* date.today(), as a day number
    has_fmp_key,    \* whether fmp_api_key is set
    tracker,        \* _earnings_refresh_tracker: date (-1 for None) and count
    refreshes,      \* every POST /api/earnings/refresh handled: where it is and what it computed
    performed,      \* for each day, how often the earnings cache was cleared and re-fetched
    gets,           \* GET /api/earnings/remaining requests handled
    earn_reply,     \* the latest response sent by either endpoint
    \* ---- store_scan_result, get_latest_scan (database.py) ----
    scan_table,     \* the rows of the scan_results table
    scan_seq,       \* the last id AUTOINCREMENT handed out
    payload_period, \* after how many scans the stored payloads repeat
    latest_scan,    \* what the latest get_latest_scan call returned, and after how many stores
    \* ---- store_daily_iv, get_historical_ivs (database.py) ----
    daily_iv,       \* the rows of the daily_iv table
    db_today,       \* date.today(), as a day number
    written,        \* for each (ticker, date) written so far, the values of the last store_daily_iv call
    hist_result,    \* the latest get_historical_ivs call: its arguments and what it returned
    \* ---- compute_skew (calculator.py) ----
    skew_contracts, \* compute_skew: the contracts argument
    skew_spot,      \* compute_skew: the spot_price argument
    skew_result,    \* what compute_skew returned: the mode it took and the points of its VolSkew
    \* ---- MarketDataClient._get (marketdata_client.py) ----
    get_pc,         \* MarketDataClient._get: "idle", "acquire", "request", "sleep", "done"
    attempt,        \* the loop variable `attempt`
    acquires,       \* how often the call has acquired the rate limiter
    responses,      \* what each HTTP request of the call was answered with
    get_outcome,    \* how the call ended: what it returned or raised
    \* ---- append_daily_csv (csv_store.py) ----
    csv_file,       \* data/daily/{ticker}.csv: whether it exists, its header and its data rows
    csv_call        \* the latest append_daily_csv call: its arguments and whether it wrote the file

scorerVars == <<surface, params, pc, score, flags, regime, rec, suggestion>>
rankVars == <<historical_ivs, current_iv, rank_result, prev_iv, prev_result, calls>>
rvVars == <<bars, rv_result>>
solverVars == <<sol_args, sol_pc, sol_lo, sol_hi, sol_mid, sol_iter, sol_result>>
chainVars == <<contracts, spot_price, target_dte, today, last_call, prev_call>>
scanVars == <<scan_day, past_1830, first_weekday, has_client, scan_results, tasks,
              scan_task, scan_progress, cron_pc, cron_wake_day, requests, response>>
earningsVars == <<earn_today, has_fmp_key, tracker, refreshes, performed, gets, earn_reply>>
scanTableVars == <<scan_table, scan_seq, payload_period, latest_scan>>
dailyIvVars == <<daily_iv, db_today, written, hist_result>>
skewVars == <<skew_contracts, skew_spot, skew_result>>
getVars == <<get_pc, attempt, acquires, responses, get_outcome>>
csvVars == <<csv_file, csv_call>>
vars == <<surface, params, pc, score, flags, regime, rec, suggestion,
          historical_ivs, current_iv, rank_result, prev_iv, prev_result, calls,
          bars, rv_result,
          sol_args, sol_pc, sol_lo, sol_hi, sol_mid, sol_iter, sol_result,
          contracts, spot_price, target_dte, today, last_call, prev_call,
          scan_day, past_1830, first_weekday, has_client, scan_results, tasks,
          scan_task, scan_progress, cron_pc, cron_wake_day, requests, response,
          earn_today, has_fmp_key, tracker, refreshes, performed, gets, earn_reply,
          scan_table, scan_seq, payload_period, latest_scan,
          daily_iv, db_today, written, hist_result,
          skew_contracts, skew_spot, skew_result,
          get_pc, attempt, acquires, responses, get_outcome,
          csv_file, csv_call>>

\* What each function leaves alone: the state of the other functions.
nonScorerVars == <<rankVars, rvVars, solverVars, chainVars, scanVars, earningsVars, scanTableVars, dailyIvVars, skewVars, getVars, csvVars>>
nonRankVars == <<scorerVars, rvVars, solverVars, chainVars, scanVars, earningsVars, scanTableVars, dailyIvVars, skewVars, getVars, csvVars>>
nonRvVars == <<scorerVars, rankVars, solverVars, chainVars, scanVars, earningsVars, scanTableVars, dailyIvVars, skewVars, getVars, csvVars>>
nonSolverVars == <<scorerVars, rankVars, rvVars, chainVars, scanVars, earningsVars, scanTableVars, dailyIvVars, skewVars, getVars, csvVars>>
nonChainVars == <<scorerVars, rankVars, rvVars, solverVars, scanVars, earningsVars, scanTableVars, dailyIvVars, skewVars, getVars, csvVars>>
nonScanVars == <<scorerVars, rankVars, rvVars, solverVars, chainVars, earningsVars, scanTableVars, dailyIvVars, skewVars, getVars, csvVars>>
nonEarningsVars == <<scorerVars, rankVars, rvVars, solverVars, chainVars, scanVars, scanTableVars, dailyIvVars, skewVars, getVars, csvVars>>
nonScanTableVars == <<scorerVars, rankVars, rvVars, solverVars, chainVars, scanVars, earningsVars, dailyIvVars, skewVars, getVars, csvVars>>
nonDailyIvVars == <<scorerVars, rankVars, rvVars, solverVars, chainVars, scanVars, earningsVars, scanTableVars, skewVars, getVars, csvVars>>
nonSkewVars == <<scorerVars, rankVars, rvVars, solverVars, chainVars, scanVars, earningsVars, scanTableVars, dailyIvVars, getVars, csvVars>>
nonGetVars == <<scorerVars, rankVars, rvVars, solverVars, chainVars, scanVars, earningsVars, scanTableVars, dailyIvVars, skewVars, csvVars>>
nonCsvVars == <<scorerVars, rankVars, rvVars, solverVars, chainVars, scanVars, earningsVars, scanTableVars, dailyIvVars, skewVars, getVars>>

Min(a, b) == IF a < b THEN a ELSE b
Max(a, b) == IF a > b THEN a ELSE b
Abs(a) == IF a < 0 THEN -a ELSE a

\* int(x) of a score in thousandths: truncation toward zero.
IntTrunc(x) == IF x >= 0 THEN x \div 1000 ELSE -((-x) \div 1000)

(***************************************************************************)
(* Flags.  The f-string flags carry formatted numbers; only their identity *)
(* is modelled.                                                            *)
(***************************************************************************)
FlagNegativeVrp == "Negative VRP - implied vol is BELOW realized. No premium edge."
FlagVrpBelowMin == "VRP below minimum threshold"
FlagIvRankBelowMin == "IV Rank below minimum"
FlagBackwardation == "Term structure in backwardation - acute stress signal"
FlagRvAccelerating == "RV accelerating - realized vol rising faster than implied"
FlagRvElevated == "RV slightly elevated vs 30-day average"
FlagRvAccelExceeds == "RV acceleration exceeds threshold"
FlagSteepSkew == "Steep skew - tail premium is rich, but may reflect informed protection buying"
FlagSkewExceeds == "Skew exceeds threshold - extreme fear pricing"
FlagDanger == "Deep backwardation - regime change likely. Do NOT sell premium."
FlagCaution == "Backwardation detected - reduce size, use defined-risk only"
FlagExtremeIv == "Extreme IV + rising RV - potential regime shift, not just fear"

(***************************************************************************)
(* ScoringParams: the defaults of the dataclass and two other settings.    *)
(***************************************************************************)
DefaultParams == [min_iv_rank |-> 600, min_vrp |-> 300,
                  max_rv_accel |-> 1150, max_skew |-> 1500]

ParamsSet == { DefaultParams,
               [min_iv_rank |-> 0, min_vrp |-> -500,
                max_rv_accel |-> 1000, max_skew |-> 500],
               [min_iv_rank |-> 950, min_vrp |-> 1000,
                max_rv_accel |-> 2000, max_skew |-> 2000] }

(***************************************************************************)
(* VolSurface inputs: values on, below and above every threshold the       *)
(* scorer compares against.                                                *)
(***************************************************************************)
VrpRatios == {900, 1333, 1570, 2000}
Vrps == {-200, 100, 500, 800, 900}
IvRanks == {0, 500, 800, 850, 900, 950}
Slopes == {800, 850, 900, 950, 1000, 1030, 1050, 1150}
RvAccels == {857, 1050, 1100, 1120, 1150, 1500}
Skews == {-1200, 300, 500, 800, 1600}

Surfaces == [vrp_ratio : VrpRatios, vrp : Vrps, iv_rank : IvRanks,
             slope : Slopes, rv_acceleration : RvAccels, skew_25d : Skews]

NoSuggestion == [delta |-> "", structure |-> "", dte |-> "", notional |-> ""]

\* ── VRP Score (0-25) ──
VrpScore(vrp_ratio) == Min(25000, Max(0, (vrp_ratio - 1000) * 30))

VrpFlags(vrp, min_vrp) ==
    IF vrp < 0 THEN <<FlagNegativeVrp>>
    ELSE IF vrp < min_vrp THEN <<FlagVrpBelowMin>>
    ELSE <<>>

VrpPenalty(vrp, min_vrp) ==
    IF vrp < 0 THEN 0
    ELSE IF vrp < min_vrp THEN 10000
    ELSE 0

\* ── IV Rank Score (0-25) ──
IvRankScore(iv_rank) == Min(25000, iv_rank * 30)

IvRankPenalty(iv_rank, min_iv_rank) == IF iv_rank < min_iv_rank THEN 10000 ELSE 0

\* Faulty variant: the 12 point band reaches up to 1.0 instead of 0.95.
TermScoreWideBand(slope) ==
    IF slope < 850 THEN 18000
    ELSE IF slope < 1000 THEN 12000
    ELSE -5000

\* ── Term Structure Score ──
TermScore(slope) ==
    IF slope < 850 THEN 18000
    ELSE IF slope < 950 THEN 12000
    ELSE IF slope < 1000 THEN 6000
    ELSE -5000

TermContribution(slope) == Max(0, TermScore(slope))

\* Faulty variant: the thresholds are compared with >= instead of >.
RvAccelPenaltyInclusive(rv_accel) ==
    IF rv_accel >= 1150 THEN 15000
    ELSE IF rv_accel >= 1050 THEN 8000
    ELSE 0

\* ── RV Acceleration (0 to -15) ──
RvAccelPenalty(rv_accel) ==
    IF rv_accel > 1150 THEN 15000
    ELSE IF rv_accel > 1050 THEN 8000
    ELSE 0

RvAccelFlags(rv_accel, max_rv_accel) ==
    (IF rv_accel > 1150 THEN <<FlagRvAccelerating>>
     ELSE IF rv_accel > 1050 THEN <<FlagRvElevated>>
     ELSE <<>>)
    \o (IF rv_accel > max_rv_accel THEN <<FlagRvAccelExceeds>> ELSE <<>>)

\* ── Skew Assessment (0-10) ──
SkewScore(skew) ==
    IF skew > 1000 THEN 5000
    ELSE IF skew > 700 THEN 8000
    ELSE IF skew > 400 THEN 6000
    ELSE 3000

SkewFlags(skew, max_skew) ==
    (IF skew > 1000 THEN <<FlagSteepSkew>> ELSE <<>>)
    \o (IF skew > max_skew THEN <<FlagSkewExceeds>> ELSE <<>>)

\* ── Regime Detection ──
SlopeRegime(slope, r) ==
    IF slope > 1050 THEN "DANGER"
    ELSE IF slope > 1000 THEN "CAUTION"
    ELSE r

\* Faulty variant: two separate ifs, so that a slope above 1.05 pays both.
SlopeRegimePenaltyCumulative(slope) ==
    (IF slope > 1050 THEN 35000 ELSE 0) + (IF slope > 1000 THEN 20000 ELSE 0)

SlopeRegimePenalty(slope) ==
    IF slope > 1050 THEN 35000
    ELSE IF slope > 1000 THEN 20000
    ELSE 0

SlopeRegimeFlags(slope) ==
    IF slope > 1050 THEN <<FlagDanger>>
    ELSE IF slope > 1000 THEN <<FlagCaution>>
    ELSE <<>>

EscalationFires(iv_rank, rv_accel) == iv_rank > 900 /\ rv_accel > 1100

\* Faulty variant: the `if regime != "DANGER"` guard is forgotten.
EscalatedRegimeUnguarded(r) == "CAUTION"

EscalatedRegime(r) == IF r # "DANGER" THEN "CAUTION" ELSE r

\* Faulty variant: the escalation also applies a 10 point penalty.
EscalatedScorePenalised(s) == s - 10000

\* The escalation assigns nothing to `score`.
EscalatedScore(s) == s

\* Faulty variant: the lower clamp max(0, ...) is forgotten.
ClampedScoreNoFloor(s) == Min(100, IntTrunc(s))

\* ── Clamp score ──
ClampedScore(s) == Max(0, Min(100, IntTrunc(s)))

\* Faulty variant: the score bands are tested without the regime.
RecommendationByScoreAlone(s, r) ==
    IF s >= 70 THEN "SELL PREMIUM"
    ELSE IF s >= 55 THEN "CONDITIONAL"
    ELSE IF r = "DANGER" THEN "AVOID"
    ELSE IF r = "CAUTION" THEN "REDUCE SIZE"
    ELSE "NO EDGE"

\* ── Recommendation ──
RecommendationOf(s, r) ==
    IF s >= 70 /\ r = "NORMAL" THEN "SELL PREMIUM"
    ELSE IF s >= 55 /\ r = "NORMAL" THEN "CONDITIONAL"
    ELSE IF r = "DANGER" THEN "AVOID"
    ELSE IF r = "CAUTION" THEN "REDUCE SIZE"
    ELSE "NO EDGE"

\* Faulty variant: the iv_rank band starts above 80 instead of at 80.
PositionConstructionExclusiveBand(r, iv_rank, vrp) ==
    IF r = "DANGER" THEN
        [delta |-> "N/A", structure |-> "No position recommended",
         dte |-> "N/A", notional |-> "0%"]
    ELSE IF r = "CAUTION" THEN
        [delta |-> "10-15D",
         structure |-> "Iron condor or wide put spread (defined risk only)",
         dte |-> "21-30 DTE", notional |-> "1-2% portfolio"]
    ELSE IF iv_rank > 800 THEN
        [delta |-> "16-20D",
         structure |-> IF vrp > 800 THEN "Short strangle or jade lizard if directional"
                       ELSE IF vrp > 400 THEN "Iron condor or put credit spread"
                       ELSE "Put credit spread with strict width limits",
         dte |-> "30-45 DTE", notional |-> "2-5% portfolio"]
    ELSE
        [delta |-> "20-30D", structure |-> "Put credit spread, narrow width",
         dte |-> "45-60 DTE", notional |-> "2-3% portfolio"]

\* ── Position Construction ──  (the en dash and the delta sign are written - and D)
PositionConstruction(r, iv_rank, vrp) ==
    IF r = "DANGER" THEN
        [delta |-> "N/A", structure |-> "No position recommended",
         dte |-> "N/A", notional |-> "0%"]
    ELSE IF r = "CAUTION" THEN
        [delta |-> "10-15D",
         structure |-> "Iron condor or wide put spread (defined risk only)",
         dte |-> "21-30 DTE", notional |-> "1-2% portfolio"]
    ELSE IF iv_rank >= 800 THEN
        [delta |-> "16-20D",
         structure |-> IF vrp > 800 THEN "Short strangle or jade lizard if directional"
                       ELSE IF vrp > 400 THEN "Iron condor or put credit spread"
                       ELSE "Put credit spread with strict width limits",
         dte |-> "30-45 DTE", notional |-> "2-5% portfolio"]
    ELSE
        [delta |-> "20-30D", structure |-> "Put credit spread, narrow width",
         dte |-> "45-60 DTE", notional |-> "2-3% portfolio"]

(***************************************************************************)
(* score_opportunity, one action per section of the function body.         *)
(***************************************************************************)
EarningsIdle ==
    /\ earn_today = 0
    /\ has_fmp_key = FALSE
    /\ tracker = [date |-> -1, count |-> 0]
    /\ refreshes = <<>>
    /\ performed = <<>>
    /\ gets = 0
    /\ earn_reply = [kind |-> "none"]

ScanTableIdle ==
    /\ scan_table = {}
    /\ scan_seq = 0
    /\ payload_period = 0
    /\ latest_scan = [after |-> 0, result |-> [kind |-> "pending"]]

DailyIvIdle ==
    /\ daily_iv = {}
    /\ db_today = 0
    /\ written = <<>>
    /\ hist_result = [ticker |-> "", lookback_days |-> 0, ivs |-> <<>>, calls |-> 0]

SkewIdle ==
    /\ skew_contracts = <<>>
    /\ skew_spot = 0
    /\ skew_result = [mode |-> "pending", points |-> <<>>]

GetIdle ==
    /\ get_pc = "idle"
    /\ attempt = 0
    /\ acquires = 0
    /\ responses = <<>>
    /\ get_outcome = [kind |-> "pending"]

CsvIdle ==
    /\ csv_file = [exists |-> FALSE, header |-> <<>>, rows |-> <<>>]
    /\ csv_call = [made |-> FALSE]

ScanIdle ==
    /\ scan_day = 0
    /\ past_1830 = FALSE
    /\ first_weekday = 0
    /\ has_client = FALSE
    /\ scan_results = <<>>
    /\ tasks = <<>>
    /\ scan_task = 0
    /\ scan_progress = "idle"
    /\ cron_pc = "off"
    /\ cron_wake_day = 0
    /\ requests = 0
    /\ response = [kind |-> "none"]

NoCall == [fn |-> "none", day |-> 0, result |-> [kind |-> "pending"]]

ChainIdle ==
    /\ contracts = <<>>
    /\ spot_price = 0
    /\ target_dte = 0
    /\ today = 0
    /\ last_call = NoCall
    /\ prev_call = NoCall

SolverIdle ==
    /\ sol_args = [option_price |-> 0, spot |-> 0, strike |-> 0, dte_days |-> 0,
                   is_call |-> TRUE, r |-> 0, sigma |-> 0]
    /\ sol_pc = "idle"
    /\ sol_lo = 0
    /\ sol_hi = 0
    /\ sol_mid = 0
    /\ sol_iter = 0
    /\ sol_result = [kind |-> "pending"]

RvIdle ==
    /\ bars = <<>>
    /\ rv_result = [status |-> "none"]

RankIdle ==
    /\ historical_ivs = <<>>
    /\ current_iv = 0
    /\ rank_result = <<>>
    /\ prev_iv = 0
    /\ prev_result = <<>>
    /\ calls = 0

InitScorer ==
    /\ surface \in Surfaces
    /\ params \in ParamsSet
    /\ pc = "vrp"
    /\ score = 0
    /\ flags = <<>>
    /\ regime = "NORMAL"
    /\ rec = ""
    /\ suggestion = NoSuggestion
    /\ RankIdle
    /\ RvIdle
    /\ SolverIdle
    /\ ChainIdle
    /\ ScanIdle
    /\ EarningsIdle
    /\ ScanTableIdle
    /\ DailyIvIdle
    /\ SkewIdle
    /\ GetIdle
    /\ CsvIdle

VrpStep ==
    /\ pc = "vrp"
    /\ score' = score + VrpScore(surface.vrp_ratio)
                      - VrpPenalty(surface.vrp, params.min_vrp)
    /\ flags' = flags \o VrpFlags(surface.vrp, params.min_vrp)
    /\ pc' = "iv_rank"
    /\ UNCHANGED <<surface, params, regime, rec, suggestion>>
    /\ UNCHANGED nonScorerVars

IvRankStep ==
    /\ pc = "iv_rank"
    /\ score' = score + IvRankScore(surface.iv_rank)
                      - IvRankPenalty(surface.iv_rank, params.min_iv_rank)
    /\ flags' = flags \o (IF surface.iv_rank < params.min_iv_rank
                          THEN <<FlagIvRankBelowMin>> ELSE <<>>)
    /\ pc' = "term"
    /\ UNCHANGED <<surface, params, regime, rec, suggestion>>
    /\ UNCHANGED nonScorerVars

TermStructureStep ==
    /\ pc = "term"
    /\ score' = score + TermContribution(surface.slope)
    /\ flags' = flags \o (IF surface.slope >= 1000
                          THEN <<FlagBackwardation>> ELSE <<>>)
    /\ pc' = "rv_accel"
    /\ UNCHANGED <<surface, params, regime, rec, suggestion>>
    /\ UNCHANGED nonScorerVars

RvAccelerationStep ==
    /\ pc = "rv_accel"
    /\ score' = score - RvAccelPenalty(surface.rv_acceleration)
    /\ flags' = flags \o RvAccelFlags(surface.rv_acceleration, params.max_rv_accel)
    /\ pc' = "skew"
    /\ UNCHANGED <<surface, params, regime, rec, suggestion>>
    /\ UNCHANGED nonScorerVars

SkewStep ==
    /\ pc = "skew"
    /\ score' = score + SkewScore(Abs(surface.skew_25d))
    /\ flags' = flags \o SkewFlags(Abs(surface.skew_25d), params.max_skew)
    /\ pc' = "regime"
    /\ UNCHANGED <<surface, params, regime, rec, suggestion>>
    /\ UNCHANGED nonScorerVars

RegimeDetectionStep ==
    /\ pc = "regime"
    /\ regime' = SlopeRegime(surface.slope, regime)
    /\ flags' = SlopeRegimeFlags(surface.slope) \o flags
    /\ score' = score - SlopeRegimePenalty(surface.slope)
    /\ pc' = "escalate"
    /\ UNCHANGED <<surface, params, rec, suggestion>>
    /\ UNCHANGED nonScorerVars

RegimeEscalationStep ==
    /\ pc = "escalate"
    /\ IF EscalationFires(surface.iv_rank, surface.rv_acceleration)
       THEN /\ regime' = EscalatedRegime(regime)
            /\ flags' = Append(flags, FlagExtremeIv)
            /\ score' = EscalatedScore(score)
       ELSE UNCHANGED <<regime, flags, score>>
    /\ pc' = "clamp"
    /\ UNCHANGED <<surface, params, rec, suggestion>>
    /\ UNCHANGED nonScorerVars

ClampStep ==
    /\ pc = "clamp"
    /\ score' = ClampedScore(score)
    /\ pc' = "recommend"
    /\ UNCHANGED <<surface, params, flags, regime, rec, suggestion>>
    /\ UNCHANGED nonScorerVars

RecommendationStep ==
    /\ pc = "recommend"
    /\ rec' = RecommendationOf(score, regime)
    /\ pc' = "construct"
    /\ UNCHANGED <<surface, params, score, flags, regime, suggestion>>
    /\ UNCHANGED nonScorerVars

PositionConstructionStep ==
    /\ pc = "construct"
    /\ suggestion' = PositionConstruction(regime, surface.iv_rank, surface.vrp)
    /\ pc' = "done"
    /\ UNCHANGED <<surface, params, score, flags, regime, rec>>
    /\ UNCHANGED nonScorerVars

NextScorer ==
    \/ VrpStep
    \/ IvRankStep
    \/ TermStructureStep
    \/ RvAccelerationStep
    \/ SkewStep
    \/ RegimeDetectionStep
    \/ RegimeEscalationStep
    \/ ClampStep
    \/ RecommendationStep
    \/ PositionConstructionStep

SpecScorer == InitScorer /\ [][NextScorer]_vars


(***************************************************************************)
(* compute_iv_rank (calculator.py).  IV values are hundredths of a         *)
(* percent, iv_rank and iv_percentile come back in tenths.                 *)
(***************************************************************************)
MaxHist == 21
MaxCalls == 2

RECURSIVE SeqMin(_)
SeqMin(s) == IF Len(s) = 1 THEN s[1] ELSE Min(s[1], SeqMin(Tail(s)))

RECURSIVE SeqMax(_)
SeqMax(s) == IF Len(s) = 1 THEN s[1] ELSE Max(s[1], SeqMax(Tail(s)))

\* Faulty variant: values equal to current_iv are counted too (<=).
CountBelowOrEqual(cur, hist) == Cardinality({i \in 1..Len(hist) : hist[i] <= cur})

\* sum(1 for iv in historical_ivs if iv < current_iv)
CountBelow(cur, hist) == Cardinality({i \in 1..Len(hist) : hist[i] < cur})

\* round(p / q, 0) of a non-negative ratio, ties to even as Python's round does.
RoundRatio(p, q) ==
    LET f == p \div q
        r == p % q
    IN  IF 2 * r < q THEN f
        ELSE IF 2 * r > q THEN f + 1
        ELSE IF f % 2 = 0 THEN f ELSE f + 1

\* Faulty variant: only the empty history is treated as insufficient.
InsufficientHistoryEmptyOnly(hist) == Len(hist) = 0

\* `if not historical_ivs or len(historical_ivs) < 20`
InsufficientHistory(hist) == Len(hist) = 0 \/ Len(hist) < 20

\* Faulty variant: a range of exactly 0.1 is treated as flat.
FlatHistoryInclusive(iv_range) == iv_range <= 10

\* `if iv_range < 0.1`
FlatHistory(iv_range) == iv_range < 10

\* rank = (current_iv - iv_min) / iv_range * 100 in tenths, as a numerator
\* over iv_range; then round(max(0, min(100, rank)), 1).
IvRankOf(cur, iv_min, iv_max) ==
    LET iv_range == iv_max - iv_min
        rank == (cur - iv_min) * 1000
    IN  IF FlatHistory(iv_range) THEN 500
        ELSE RoundRatio(Max(0, Min(1000 * iv_range, rank)), iv_range)

\* round(percentile, 1), in tenths
IvPercentileOf(cur, hist) == RoundRatio(CountBelow(cur, hist) * 1000, Len(hist))

ComputeIvRank(cur, hist) ==
    IF InsufficientHistory(hist) THEN <<500, 500>>
    ELSE <<IvRankOf(cur, SeqMin(hist), SeqMax(hist)), IvPercentileOf(cur, hist)>>

(***************************************************************************)
(* Inputs of compute_iv_rank: histories of 0..MaxHist values made of k     *)
(* copies of one value followed by copies of another (flat histories,      *)
(* histories whose range is below, equal to and above 0.1), and current    *)
(* values below, on, between and above the historical ones.                *)
(***************************************************************************)
HistVals == {2000, 2005, 2010, 3500}
CurrentIvs == {1900, 2000, 2005, 2010, 2750, 3500, 4000}

Histories ==
    { [i \in 1..n |-> IF i <= k THEN a ELSE b] :
        n \in 0..MaxHist, k \in 0..MaxHist, a \in HistVals, b \in HistVals }

ScorerIdle ==
    /\ surface = [vrp_ratio |-> 1000, vrp |-> 0, iv_rank |-> 500,
                  slope |-> 1000, rv_acceleration |-> 1000, skew_25d |-> 0]
    /\ params = DefaultParams
    /\ pc = "idle"
    /\ score = 0
    /\ flags = <<>>
    /\ regime = "NORMAL"
    /\ rec = ""
    /\ suggestion = NoSuggestion

InitRank ==
    /\ historical_ivs \in Histories
    /\ current_iv = 0
    /\ rank_result = <<>>
    /\ prev_iv = 0
    /\ prev_result = <<>>
    /\ calls = 0
    /\ ScorerIdle
    /\ RvIdle
    /\ SolverIdle
    /\ ChainIdle
    /\ ScanIdle
    /\ EarningsIdle
    /\ ScanTableIdle
    /\ DailyIvIdle
    /\ SkewIdle
    /\ GetIdle
    /\ CsvIdle

\* One call compute_iv_rank(cur, historical_ivs); the call before is remembered.
CallComputeIvRank(cur) ==
    /\ calls < MaxCalls
    /\ prev_iv' = current_iv
    /\ prev_result' = rank_result
    /\ current_iv' = cur
    /\ rank_result' = ComputeIvRank(cur, historical_ivs)
    /\ calls' = calls + 1
    /\ UNCHANGED historical_ivs
    /\ UNCHANGED nonRankVars

NextRank == \E cur \in CurrentIvs : CallComputeIvRank(cur)

SpecRank == InitRank /\ [][NextRank]_vars


(***************************************************************************)
(* compute_realized_vol (calculator.py).  A bar is represented by the log  *)
(* of its close in units of 0.001, so a log return is the difference of    *)
(* two neighbouring bars; realized vols come back in hundredths of a       *)
(* percent and rv_acceleration in thousandths.                             *)
(***************************************************************************)
MaxBars == 62

\* Largest k in lo..hi with k * k <= n.
RECURSIVE ISqrtIn(_, _, _)
ISqrtIn(n, lo, hi) ==
    IF lo >= hi THEN lo
    ELSE LET mid == (lo + hi + 1) \div 2
         IN  IF mid * mid <= n THEN ISqrtIn(n, mid, hi) ELSE ISqrtIn(n, lo, mid - 1)

ISqrt(n) == ISqrtIn(n, 0, 46340)

\* The integer nearest to sqrt(n).
RoundSqrt(n) == LET k == ISqrt(n) IN IF n - k * k > k THEN k + 1 ELSE k

\* np.diff(np.log(closes))
LogReturns(b) == [i \in 1..(Len(b) - 1) |-> b[i + 1] - b[i]]

\* returns[-n:]
LastN(returns, n) ==
    IF Len(returns) <= n THEN returns
    ELSE SubSeq(returns, Len(returns) - n + 1, Len(returns))

RECURSIVE SeqSum(_)
SeqSum(s) ==
    IF s = <<>> THEN 0
    ELSE IF Len(s) = 1 THEN s[1]
    ELSE LET h == Len(s) \div 2
         IN  SeqSum(SubSeq(s, 1, h)) + SeqSum(SubSeq(s, h + 1, Len(s)))

\* floor(k * variance) of a window, variance = np.var(returns, ddof=1)
\*   = (m * sum(x^2) - sum(x)^2) / (m * (m - 1))
ScaledVariance(returns, k) ==
    LET m == Len(returns)
        num == m * SeqSum([i \in 1..m |-> returns[i] * returns[i]])
               - SeqSum(returns) * SeqSum(returns)
        den == m * (m - 1)
    IN  k * (num \div den) + (k * (num % den)) \div den

\* _rv: np.std(returns, ddof=1) * sqrt(252) * 100, here in units of 0.001 %
\* (returns are in units of 0.001, so the value is sqrt(252 * var) * 100).
RvFine(returns) == ISqrt(100 * ScaledVariance(returns, 25200))

\* round(_rv(returns), 2), in hundredths of a percent
RvOf(returns) == RoundSqrt(ScaledVariance(returns, 25200))

\* Faulty variant: the window test counts bars instead of log returns.
HasWindowByBars(returns, n) == Len(returns) + 1 >= n

\* `len(log_returns) >= N`
HasWindow(returns, n) == Len(returns) >= n

\* The window whose _rv value each of rv10, rv20, rv30, rv60 takes.
RECURSIVE WindowFor(_, _)
WindowFor(returns, n) ==
    IF n = 10 THEN 10
    ELSE IF HasWindow(returns, n) THEN n
    ELSE IF n = 20 THEN WindowFor(returns, 10)
    ELSE IF n = 30 THEN WindowFor(returns, 20)
    ELSE WindowFor(returns, 30)

ComputeRealizedVol(b) ==
    IF Len(b) < 11 THEN [status |-> "ValueError"]
    ELSE LET log_returns == LogReturns(b)
             w(n) == LastN(log_returns, WindowFor(log_returns, n))
             rv10 == RvFine(w(10))
             rv30 == RvFine(w(30))
         IN  [status |-> "RealizedVol",
              rv10 |-> RvOf(w(10)), rv20 |-> RvOf(w(20)),
              rv30 |-> RvOf(w(30)), rv60 |-> RvOf(w(60)),
              rv_acceleration |-> IF rv30 > 0 THEN RoundRatio(rv10 * 1000, rv30)
                                  ELSE 1000]

(***************************************************************************)
(* Bar series: n bars whose log returns alternate in sign, with amplitude  *)
(* a for the older returns and b for the latest k.                         *)
(***************************************************************************)
Amplitudes == {5, 10, 20}
RecentCounts == {0, 5, 15, 25, 45}

\* The i-th log return of the series (1 is the oldest).
ReturnAt(n, a, b, k, i) ==
    LET amp == IF i > (n - 1) - k THEN b ELSE a
    IN  IF i % 2 = 1 THEN amp ELSE -amp

\* The i-th bar: the log close after the first i - 1 returns.
BarAt(n, a, b, k, i) == SeqSum([j \in 1..(i - 1) |-> ReturnAt(n, a, b, k, j)])

BarSeries ==
    { [i \in 1..n |-> BarAt(n, a, b, k, i)] :
        n \in 0..MaxBars, a \in Amplitudes, b \in Amplitudes, k \in RecentCounts }

InitRv ==
    /\ bars \in BarSeries
    /\ rv_result = [status |-> "none"]
    /\ ScorerIdle
    /\ RankIdle
    /\ SolverIdle
    /\ ChainIdle
    /\ ScanIdle
    /\ EarningsIdle
    /\ ScanTableIdle
    /\ DailyIvIdle
    /\ SkewIdle
    /\ GetIdle
    /\ CsvIdle

\* One call of compute_realized_vol(bars).
CallComputeRealizedVol ==
    /\ rv_result.status = "none"
    /\ rv_result' = ComputeRealizedVol(bars)
    /\ UNCHANGED <<bars, nonRvVars>>

NextRv == CallComputeRealizedVol

SpecRv == InitRv /\ [][NextRv]_vars

(***************************************************************************)
(* The Black-Scholes IV solver (backfill.py).  A float is represented by   *)
(* the nearest multiple of 10^-6: prices, volatilities, times and rates    *)
(* are integers in units of One.  The library functions math.sqrt,         *)
(* math.log, math.exp and math.erf are computed to that resolution.        *)
(***************************************************************************)
One == 1000000

Sgn(x) == IF x < 0 THEN -1 ELSE 1

\* a * b, rounded to the nearest unit; the product is formed from
\* three-digit limbs so that no intermediate value leaves 32 bits.
FMul(a, b) ==
    LET x == Abs(a)
        y == Abs(b)
        x1 == x \div 1000
        x0 == x % 1000
        y1 == y \div 1000
        y0 == y % 1000
        cross == x1 * y0 + x0 * y1
    IN  Sgn(a) * Sgn(b)
          * (x1 * y1 + cross \div 1000
             + (x0 * y0 + (cross % 1000) * 1000 + 500000) \div One)

\* Long division: k more decimal digits of q + r / b, then rounding.
RECURSIVE LongDiv(_, _, _, _)
LongDiv(q, r, b, k) ==
    IF k = 0 THEN (IF 2 * r >= b THEN q + 1 ELSE q)
    ELSE LongDiv(q * 10 + (r * 10) \div b, (r * 10) % b, b, k - 1)

\* a / b, rounded to the nearest unit (b # 0)
FDiv(a, b) ==
    Sgn(a) * Sgn(b) * LongDiv(Abs(a) \div Abs(b), Abs(a) % Abs(b), Abs(b), 6)

\* math.sqrt: an integer square root refined by two Newton steps
FSqrt(x) ==
    IF x <= 0 THEN 0
    ELSE LET s0 == Max(1, IF x < 20000000 THEN ISqrt(x * 100) * 100
                          ELSE ISqrt(x) * 1000)
             s1 == (s0 + FDiv(x, s0)) \div 2
         IN  (s1 + FDiv(x, s1)) \div 2

\* exp(-f) for 0 <= f < 1: the Taylor series in Horner form,
\*   1 - f/1 * (1 - f/2 * (1 - f/3 * ( ... )))
RECURSIVE ExpNegFrac(_, _)
ExpNegFrac(f, j) ==
    IF j > 14 THEN One ELSE One - FMul(f, ExpNegFrac(f, j + 1)) \div j

\* v * exp(-n) for a natural number n (367879 is exp(-1)); `w = w` has each
\* product computed before the next one is asked for.
RECURSIVE ExpNegInt(_, _)
ExpNegInt(v, n) ==
    IF n = 0 THEN v
    ELSE LET w == FMul(v, 367879)
         IN  IF w = w THEN ExpNegInt(w, n - 1) ELSE 0

\* math.exp(-y); for y < 0 it is 1 / exp(-|y|)
ExpNeg(y) ==
    IF y >= 0 THEN ExpNegInt(ExpNegFrac(y % One, 1), y \div One)
    ELSE FDiv(One, ExpNegInt(ExpNegFrac((-y) % One, 1), (-y) \div One))

\* atanh(u) / u = 1 + u^2/3 + u^4/5 + ... in Horner form, u2 = u^2
RECURSIVE AtanhSeries(_, _)
AtanhSeries(u2, k) ==
    IF k > 11 THEN 0
    ELSE One \div (2 * k + 1) + FMul(u2, AtanhSeries(u2, k + 1))

\* math.log(x) = 2 * atanh((x - 1) / (x + 1)), for 1/2 <= x <= 2
Ln(x) ==
    LET u == FDiv(x - One, x + One)
    IN  2 * FMul(u, AtanhSeries(FMul(u, u), 0))

\* math.erf(z) for z >= 0 (Abramowitz and Stegun 7.1.26, error below
\* 1.5 * 10^-7); erf is 1 to double precision beyond 6.
ErfPos(z) ==
    IF z > 6 * One THEN One
    ELSE LET t == FDiv(One, One + FMul(327591, z))
             poly == FMul(FMul(FMul(FMul(FMul(1061405, t) - 1453152, t)
                                    + 1421414, t) - 284497, t) + 254830, t)
         IN  One - FMul(poly, ExpNeg(FMul(z, z)))

\* math.erf
Erf(z) == IF z < 0 THEN -ErfPos(-z) ELSE ErfPos(z)

\* _norm_cdf: 0.5 * (1.0 + math.erf(x / math.sqrt(2.0)))
NormCdf(x) == (One + Erf(FMul(x, 707107))) \div 2

\* strike * math.exp(-r * T)
Discounted(strike, T, r) == FMul(strike, ExpNeg(FMul(r, T)))

\* _bs_price; `d1 # d1` is never true and has d1 computed first.
BsPrice(spot, strike, T, r, sigma, is_call) ==
    IF T <= 0 \/ sigma <= 0 THEN 0
    ELSE LET sqrt_T == FSqrt(T)
             d1 == FDiv(Ln(FDiv(spot, strike))
                        + FMul(r + FMul(sigma, sigma) \div 2, T),
                        FMul(sigma, sqrt_T))
             d2 == d1 - FMul(sigma, sqrt_T)
         IN  IF d1 # d1 THEN 0
             ELSE IF is_call
             THEN FMul(spot, NormCdf(d1)) - FMul(Discounted(strike, T, r), NormCdf(d2))
             ELSE FMul(Discounted(strike, T, r), NormCdf(-d2)) - FMul(spot, NormCdf(-d1))

(***************************************************************************)
(* compute_iv_from_price, one action per section of its body and one per   *)
(* iteration of its loop.                                                  *)
(***************************************************************************)
RISK_FREE_RATE == 43000
BisectionSteps == 100

\* T = dte_days / 365.0
TimeToExpiry(dte_days) == (dte_days * One + 182) \div 365

\* Faulty variant: the days-to-expiry test is missing.
GuardRejectsIgnoringDte(a) ==
    a.option_price <= 0 \/ a.spot <= 0 \/ a.strike <= 0

\* `option_price <= 0 or spot <= 0 or strike <= 0 or dte_days <= 0`
GuardRejects(a) ==
    a.option_price <= 0 \/ a.spot <= 0 \/ a.strike <= 0 \/ a.dte_days <= 0

\* intrinsic
Intrinsic(a) ==
    LET disc == Discounted(a.strike, TimeToExpiry(a.dte_days), a.r)
    IN  IF a.is_call THEN Max(0, a.spot - disc) ELSE Max(0, disc - a.spot)

\* `option_price < intrinsic * 0.95`
BelowIntrinsic(option_price, intrinsic) == option_price < FMul(intrinsic, 950000)

\* (lo + hi) / 2.0
Midpoint(lo, hi) == (lo + hi) \div 2

\* Faulty variant: a price tolerance of 0.01.
ConvergedLoosely(price, option_price) == Abs(price - option_price) < 10000

\* `abs(price - option_price) < 0.001`
Converged(price, option_price) == Abs(price - option_price) < 1000

\* Faulty variant: the final estimate is returned whatever its error.
AcceptFinalAlways(final_price, option_price) == TRUE

\* `abs(final_price - option_price) / option_price < 0.05`, option_price > 0
AcceptFinal(final_price, option_price) ==
    Abs(final_price - option_price) < FMul(50000, option_price)

\* _bs_price(spot, strike, T, r, sigma, is_call) on the call's arguments
PriceAt(a, sigma) ==
    BsPrice(a.spot, a.strike, TimeToExpiry(a.dte_days), a.r, sigma, a.is_call)

ReturnNone(via) == [kind |-> "None", via |-> via]
ReturnIv(v, via) == [kind |-> "float", value |-> v, via |-> via]

\* Arguments given directly.
DirectArgs ==
    [option_price : {-One, 0, 2500000, 15 * One, 19900000, 90 * One},
     spot : {0, 80 * One, 100 * One},
     strike : {0, 80 * One, 100 * One},
     dte_days : {-1, 0, 30},
     is_call : BOOLEAN,
     r : {RISK_FREE_RATE},
     sigma : {0}]

\* Arguments whose price is the Black-Scholes call price at volatility sigma.
RoundTripSigmas == {50000, 200000, 500000, 2 * One}
RoundTripDays == {3, 30, 365, 730}
RoundTripSpotStrike == {<<100, 100>>, <<100, 80>>, <<1, 1>>, <<100, 200>>}

RoundTripArgs ==
    { [option_price |-> BsPrice(p[1] * One, p[2] * One, TimeToExpiry(d), r, sg, TRUE),
       spot |-> p[1] * One, strike |-> p[2] * One, dte_days |-> d,
       is_call |-> TRUE, r |-> r, sigma |-> sg] :
        p \in RoundTripSpotStrike, d \in RoundTripDays,
        r \in {0, RISK_FREE_RATE}, sg \in RoundTripSigmas }

InitSolver ==
    /\ sol_args \in DirectArgs \cup RoundTripArgs
    /\ sol_pc = "guard"
    /\ sol_lo = 0
    /\ sol_hi = 0
    /\ sol_mid = 0
    /\ sol_iter = 0
    /\ sol_result = [kind |-> "pending"]
    /\ ScorerIdle
    /\ RankIdle
    /\ RvIdle
    /\ ChainIdle
    /\ ScanIdle
    /\ EarningsIdle
    /\ ScanTableIdle
    /\ DailyIvIdle
    /\ SkewIdle
    /\ GetIdle
    /\ CsvIdle

\* The argument check.
GuardStep ==
    /\ sol_pc = "guard"
    /\ IF GuardRejects(sol_args)
       THEN sol_pc' = "done" /\ sol_result' = ReturnNone("guard")
       ELSE sol_pc' = "intrinsic" /\ UNCHANGED sol_result
    /\ UNCHANGED <<sol_args, sol_lo, sol_hi, sol_mid, sol_iter, nonSolverVars>>

\* The intrinsic value check, then `lo, hi = 0.01, 5.0`.
IntrinsicStep ==
    /\ sol_pc = "intrinsic"
    /\ IF BelowIntrinsic(sol_args.option_price, Intrinsic(sol_args))
       THEN /\ sol_pc' = "done"
            /\ sol_result' = ReturnNone("intrinsic")
            /\ UNCHANGED <<sol_lo, sol_hi>>
       ELSE /\ sol_pc' = "bisect"
            /\ sol_lo' = 10000
            /\ sol_hi' = 5 * One
            /\ UNCHANGED sol_result
    /\ UNCHANGED <<sol_args, sol_mid, sol_iter, nonSolverVars>>

\* One iteration of `for _ in range(100)`.
BisectStep ==
    /\ sol_pc = "bisect"
    /\ sol_iter < BisectionSteps
    /\ LET mid == Midpoint(sol_lo, sol_hi)
           price == PriceAt(sol_args, mid)
       IN  /\ sol_mid' = mid
           /\ sol_iter' = sol_iter + 1
           /\ IF Converged(price, sol_args.option_price)
              THEN /\ sol_pc' = "done"
                   /\ sol_result' = ReturnIv(mid, "converged")
                   /\ UNCHANGED <<sol_lo, sol_hi>>
              ELSE /\ IF price > sol_args.option_price
                      THEN sol_hi' = mid /\ UNCHANGED sol_lo
                      ELSE sol_lo' = mid /\ UNCHANGED sol_hi
                   /\ UNCHANGED <<sol_pc, sol_result>>
    /\ UNCHANGED <<sol_args, nonSolverVars>>

\* After the loop: the best estimate, if it is close enough.
ExhaustedStep ==
    /\ sol_pc = "bisect"
    /\ sol_iter = BisectionSteps
    /\ LET result == Midpoint(sol_lo, sol_hi)
           final_price == PriceAt(sol_args, result)
       IN  /\ sol_mid' = result
           /\ sol_result' = IF AcceptFinal(final_price, sol_args.option_price)
                            THEN ReturnIv(result, "exhausted")
                            ELSE ReturnNone("exhausted")
    /\ sol_pc' = "done"
    /\ UNCHANGED <<sol_args, sol_lo, sol_hi, sol_iter, nonSolverVars>>

NextSolver == GuardStep \/ IntrinsicStep \/ BisectStep \/ ExhaustedStep

SpecSolver == InitSolver /\ [][NextSolver]_vars

(***************************************************************************)
(* The option-chain functions: compute_atm_iv and compute_term_structure   *)
(* (calculator.py) and compute_atm_iv_historical (backfill.py).            *)
(* A contract is a record [strike, expiration, contract_type,              *)
(* implied_volatility]: the expiration is a day number, the implied        *)
(* volatility is in units of 0.0001 and 0 stands for None.  An IV in       *)
(* percent (the raw value times 100) is then in units of 0.01, so that     *)
(* round(x, 2) is rounding to an integer.  Intermediate values are exact   *)
(* fractions [n, d] with d > 0; d = 0 stands for None.                     *)
(***************************************************************************)
MaxDays == 1

RECURSIVE Gcd(_, _)
Gcd(a, b) == IF b = 0 THEN a ELSE Gcd(b, a % b)

Frac(n, d) == LET g == Gcd(Abs(n), d) IN [n |-> n \div g, d |-> d \div g]

\* p / q for q # 0
FracOf(p, q) == IF q < 0 THEN Frac(-p, -q) ELSE Frac(p, q)

NoneFrac == [n |-> 0, d |-> 0]
IsNone(f) == f.d = 0

\* Faulty variant: the weight is used as computed, without max(0, min(1, .)).
Unclamped(w) == w

\* max(0, min(1, w))
Clamp01(w) ==
    IF w.n < 0 THEN Frac(0, 1) ELSE IF w.n > w.d THEN Frac(1, 1) ELSE w

\* a * (1 - w) + b * w
Mix(a, b, w) ==
    Frac(a.n * b.d * (w.d - w.n) + b.n * a.d * w.n, a.d * b.d * w.d)

\* round(x, 2) of a percentage
Round2(f) == RoundRatio(f.n, f.d)

NoneResult == [kind |-> "None"]
FloatResult(v) == [kind |-> "float", value |-> v]

\* sorted(s, key=...): a stable sort, keys[i] being the key of s[i]
StableSort(s, keys) ==
    LET n == Len(s)
        Pos(i) == 1 + Cardinality({j \in 1..n :
                          \/ keys[j] < keys[i]
                          \/ keys[j] = keys[i] /\ j < i})
    IN  [p \in 1..n |-> s[CHOOSE i \in 1..n : Pos(i) = p]]

\* min(s, key=...): the first of the least elements, keys[i] being the key of s[i]
MinBy(s, keys) ==
    s[CHOOSE i \in 1..Len(s) :
        \A j \in 1..Len(s) :
            \/ keys[i] < keys[j]
            \/ keys[i] = keys[j] /\ i <= j]

\* The distinct elements of s, in the order of their first appearance
\* (the key order of a dict filled by setdefault).
DistinctInOrder(s) ==
    LET firsts == SelectSeq([i \in 1..Len(s) |-> i],
                            LAMBDA i : \A j \in 1..(i - 1) : s[j] # s[i])
    IN  [k \in 1..Len(firsts) |-> s[firsts[k]]]

\* by_expiry[exp]
ChainAt(cs, exp) == SelectSeq(cs, LAMBDA c : c.expiration = exp)

\* expiry_dte: <<expiration, dte>> for the expirations with dte > 0
ExpiryDte(cs, day) ==
    LET keys == DistinctInOrder([i \in 1..Len(cs) |-> cs[i].expiration])
    IN  SelectSeq([i \in 1..Len(keys) |-> <<keys[i], keys[i] - day>>],
                  LAMBDA p : p[2] > 0)

\* `c.implied_volatility is not None and c.implied_volatility > 0`
HasIv(c) == c.implied_volatility > 0

\* np.mean of the contracts' IVs
MeanIv(cs) == Frac(SeqSum([i \in 1..Len(cs) |-> cs[i].implied_volatility]), Len(cs))

\* near_atm: within 3% of spot, with an IV
NearAtm(chain, spot) ==
    SelectSeq(chain, LAMBDA c : 100 * Abs(c.strike - spot) <= 3 * spot /\ HasIv(c))

\* Faulty variant: the strike farthest from spot.
FarthestStrike(near_atm, spot) ==
    MinBy(near_atm, [i \in DOMAIN near_atm |-> -Abs(near_atm[i].strike - spot)]).strike

\* nearest_strike
NearestStrike(near_atm, spot) ==
    MinBy(near_atm, [i \in DOMAIN near_atm |-> Abs(near_atm[i].strike - spot)]).strike

\* compute_atm_iv._atm_iv_at_expiry (also inlined in compute_term_structure)
AtmIvAtExpiry(cs, spot, exp) ==
    LET near_atm == NearAtm(ChainAt(cs, exp), spot)
    IN  IF near_atm = <<>> THEN NoneFrac
        ELSE MeanIv(SelectSeq(near_atm,
                              LAMBDA c : c.strike = NearestStrike(near_atm, spot)))

\* compute_atm_iv, with the value date.today() has when it runs
ComputeAtmIv(cs, spot, target, dte_tolerance, day) ==
    LET expiry_dte == ExpiryDte(cs, day)
        sorted_expiries == StableSort(expiry_dte,
                                      [i \in DOMAIN expiry_dte |-> Abs(expiry_dte[i][2] - target)])
        best_dte == sorted_expiries[1][2]
        iv == AtmIvAtExpiry(cs, spot, sorted_expiries[1][1])
        next_dte == sorted_expiries[2][2]
        next_iv == AtmIvAtExpiry(cs, spot, sorted_expiries[2][1])
        weight == Clamp01(FracOf(target - best_dte, next_dte - best_dte))
        usable == SelectSeq(SubSeq(sorted_expiries, 1, Min(3, Len(sorted_expiries))),
                            LAMBDA p : ~IsNone(AtmIvAtExpiry(cs, spot, p[1])))
    IN  IF expiry_dte = <<>> THEN NoneResult
        ELSE IF Abs(best_dte - target) <= dte_tolerance /\ ~IsNone(iv)
        THEN IF /\ Len(sorted_expiries) > 1
                /\ ~IsNone(next_iv)
                /\ best_dte # next_dte
             THEN FloatResult(Round2(Mix(iv, next_iv, weight)))
             ELSE FloatResult(Round2(iv))
        ELSE IF usable = <<>> THEN NoneResult
        ELSE FloatResult(Round2(AtmIvAtExpiry(cs, spot, usable[1][1])))

SetMax(S) == CHOOSE x \in S : \A y \in S : y <= x
SetMin(S) == CHOOSE x \in S : \A y \in S : x <= y

\* compute_atm_iv_historical._interpolated_atm_iv
InterpolatedAtmIv(cs, spot, exp) ==
    LET chain == ChainAt(cs, exp)
        with_iv == SelectSeq(chain, HasIv)
        sorted_strikes == {with_iv[i].strike : i \in 1..Len(with_iv)}
        strike_avg(k) == MeanIv(SelectSeq(with_iv, LAMBDA c : c.strike = k))
        below == {s \in sorted_strikes : s <= spot}
        above == {s \in sorted_strikes : s > spot}
        s_lo == SetMax(below)
        s_hi == SetMin(above)
        w == IF s_hi # s_lo THEN FracOf(spot - s_lo, s_hi - s_lo) ELSE Frac(1, 2)
        nearest == SetMin({s \in sorted_strikes :
                             \A u \in sorted_strikes : Abs(s - spot) <= Abs(u - spot)})
    IN  IF sorted_strikes = {} THEN NoneFrac
        ELSE IF below # {} /\ above # {}
        THEN Mix(strike_avg(s_lo), strike_avg(s_hi), w)
        ELSE strike_avg(nearest)

\* compute_atm_iv_historical
ComputeAtmIvHistorical(cs, spot, as_of, target) ==
    LET expiry_dte == ExpiryDte(cs, as_of)
        with_iv == SelectSeq(expiry_dte,
                             LAMBDA p : ~IsNone(InterpolatedAtmIv(cs, spot, p[1])))
        expiry_ivs == StableSort([i \in 1..Len(with_iv) |->
                                     <<with_iv[i][2],
                                       InterpolatedAtmIv(cs, spot, with_iv[i][1])>>],
                                 [i \in DOMAIN with_iv |-> with_iv[i][2]])
        by_target == StableSort(expiry_ivs,
                                [i \in DOMAIN expiry_ivs |-> Abs(expiry_ivs[i][1] - target)])
        dte1 == by_target[1][1]
        iv1 == by_target[1][2]
        dte2 == by_target[2][1]
        iv2 == by_target[2][2]
        w == Clamp01(FracOf(target - dte1, dte2 - dte1))
    IN  IF expiry_dte = <<>> THEN NoneResult
        ELSE IF expiry_ivs = <<>> THEN NoneResult
        ELSE IF Len(expiry_ivs) = 1 THEN FloatResult(Round2(expiry_ivs[1][2]))
        ELSE IF dte1 = dte2 THEN FloatResult(Round2(Mix(iv1, iv2, Frac(1, 2))))
        ELSE FloatResult(Round2(Mix(iv1, iv2, w)))

\* target_tenors
TargetTenors == <<7, 14, 30, 60, 90, 120, 180, 365>>

\* np.interp(x, dte_arr, iv_arr) on the sorted list of <<dte, iv>>
Interp(x, pts) ==
    IF x <= pts[1][1] THEN pts[1][2]
    ELSE IF x >= pts[Len(pts)][1] THEN pts[Len(pts)][2]
    ELSE LET i == CHOOSE k \in 1..(Len(pts) - 1) : pts[k][1] <= x /\ x < pts[k + 1][1]
         IN  Mix(pts[i][2], pts[i + 1][2],
                 FracOf(x - pts[i][1], pts[i + 1][1] - pts[i][1]))

\* compute_term_structure, with the value date.today() has when it runs;
\* slope is in thousandths.
ComputeTermStructure(cs, spot, day) ==
    LET expiry_dte == ExpiryDte(cs, day)
        with_iv == SelectSeq(expiry_dte,
                             LAMBDA p : ~IsNone(AtmIvAtExpiry(cs, spot, p[1])))
        expiry_ivs == StableSort([i \in 1..Len(with_iv) |->
                                     <<with_iv[i][2],
                                       AtmIvAtExpiry(cs, spot, with_iv[i][1])>>],
                                 [i \in DOMAIN with_iv |-> with_iv[i][2]])
        first_dte == expiry_ivs[1][1]
        last_dte == expiry_ivs[Len(expiry_ivs)][1]
        kept == SelectSeq(TargetTenors,
                          LAMBDA t : ~(t < first_dte - 5 \/ t > last_dte + 30))
        points == [i \in 1..Len(kept) |->
                      [tenor_days |-> kept[i],
                       iv |-> Round2(Interp(kept[i], expiry_ivs))]]
        front_iv == points[1].iv
        back_iv == points[Len(points)].iv
    IN  IF Len(expiry_ivs) < 2
        THEN [points |-> <<>>, slope |-> 1000, is_contango |-> TRUE,
              front_iv |-> 0, back_iv |-> 0]
        ELSE IF Len(points) < 2
        THEN [points |-> points, slope |-> 1000, is_contango |-> TRUE,
              front_iv |-> IF points # <<>> THEN points[1].iv ELSE 0,
              back_iv |-> IF points # <<>> THEN points[1].iv ELSE 0]
        ELSE [points |-> points,
              slope |-> IF back_iv > 0 THEN RoundRatio(front_iv * 1000, back_iv)
                        ELSE 1000,
              is_contango |-> IF back_iv > 0 THEN front_iv < back_iv ELSE FALSE,
              front_iv |-> front_iv, back_iv |-> back_iv]

(***************************************************************************)
(* Chains, built as test_compute_atm_iv builds its chain: for each strike, *)
(* for each expiration, a call and a put.  The raw IV of a contract is     *)
(*   base + wing * |strike - 500| + smirk * (500 - strike) + tilt * e      *)
(* for the e-th expiration after the first; no_front_iv leaves the first   *)
(* expiration without IVs.                                                 *)
(***************************************************************************)
TestStrikes == <<480, 485, 490, 495, 500, 505, 510, 515, 520>>
StrikeLists == {TestStrikes, <<495, 505>>, <<495>>, <<440, 560>>}
ExpiryLists == {<<30, 60>>, <<30>>, <<1, 31>>, <<150, 160>>, <<200, 210>>,
                <<20, 45, 90>>, <<35, 60>>, <<10, 25>>}
IvShapes ==
    [base : {2000}, wing : {10}, smirk : {0, 20}, tilt : {-100, 0, 1},
     no_front_iv : BOOLEAN]

RawIv(strike, e, shape) ==
    IF shape.no_front_iv /\ e = 1 THEN 0
    ELSE shape.base + shape.wing * Abs(strike - 500)
         + shape.smirk * (500 - strike) + shape.tilt * (e - 1)

ChainOf(strikes, expiries, shape) ==
    [i \in 1..(Len(strikes) * Len(expiries) * 2) |->
        LET s == (i - 1) \div (2 * Len(expiries)) + 1
            e == (((i - 1) \div 2) % Len(expiries)) + 1
        IN  [strike |-> strikes[s],
             expiration |-> expiries[e],
             contract_type |-> IF (i - 1) % 2 = 0 THEN "call" ELSE "put",
             implied_volatility |-> RawIv(strikes[s], e, shape)]]

Chains ==
    { ChainOf(ks, es, shape) : ks \in StrikeLists, es \in ExpiryLists, shape \in IvShapes }

InitChain ==
    /\ contracts \in Chains
    /\ spot_price \in {499, 500}
    /\ target_dte = 30
    /\ today = 0
    /\ last_call = NoCall
    /\ prev_call = NoCall
    /\ ScorerIdle
    /\ RankIdle
    /\ RvIdle
    /\ SolverIdle
    /\ ScanIdle
    /\ EarningsIdle
    /\ ScanTableIdle
    /\ DailyIvIdle
    /\ SkewIdle
    /\ GetIdle
    /\ CsvIdle

\* The record of an invocation made now.
Invocation(fn, result) == [fn |-> fn, day |-> today, result |-> result]

\* compute_atm_iv(contracts, spot_price, target_dte), dte_tolerance = 10
CallComputeAtmIv ==
    /\ last_call' = Invocation("compute_atm_iv",
                               ComputeAtmIv(contracts, spot_price, target_dte, 10, today))
    /\ prev_call' = last_call
    /\ UNCHANGED <<contracts, spot_price, target_dte, today, nonChainVars>>

\* compute_atm_iv_historical(contracts, spot_price, as_of=today, target_dte)
CallComputeAtmIvHistorical ==
    /\ last_call' = Invocation("compute_atm_iv_historical",
                               ComputeAtmIvHistorical(contracts, spot_price, today,
                                                      target_dte))
    /\ prev_call' = last_call
    /\ UNCHANGED <<contracts, spot_price, target_dte, today, nonChainVars>>

\* compute_term_structure(contracts, spot_price)
CallComputeTermStructure ==
    /\ last_call' = Invocation("compute_term_structure",
                               [kind |-> "TermStructure",
                                value |-> ComputeTermStructure(contracts, spot_price,
                                                               today)])
    /\ prev_call' = last_call
    /\ UNCHANGED <<contracts, spot_price, target_dte, today, nonChainVars>>

\* Midnight: date.today() moves on.
DayPasses ==
    /\ today < MaxDays
    /\ today' = today + 1
    /\ UNCHANGED <<contracts, spot_price, target_dte, last_call, prev_call, nonChainVars>>

NextChain ==
    \/ CallComputeAtmIv
    \/ CallComputeAtmIvHistorical
    \/ CallComputeTermStructure
    \/ DayPasses

SpecChain == InitChain /\ [][NextChain]_vars

(***************************************************************************)
(* The scan endpoints of main.py: POST /api/scan (trigger_scan), the       *)
(* background task it creates, the scheduler (_cron_loop) and the          *)
(* scan_results table (database.py).  Time is the US/Eastern date and      *)
(* whether 18:30 has passed; a handler runs without interruption up to     *)
(* its next await.                                                         *)
(***************************************************************************)
MaxScanDays == 2
MaxRequests == 3
KeepRows == 50

\* store_scan_result: insert, then keep the latest 50 rows
StoreScanResult(rows, day) == LastN(Append(rows, day), KeepRows)

\* get_latest_scan and _is_scanned_today on its scanned_at
ScannedToday(rows, day) == rows # <<>> /\ rows[Len(rows)] = day

\* Faulty variant: the running task is not looked at.
ScanInProgressIgnored(ts, t) == FALSE

\* `_scan_task and not _scan_task.done()`
ScanInProgress(ts, t) == t # 0 /\ ts[t] # "done"

\* candidate.weekday()
Weekday(day) == (first_weekday + day) % 7

\* The scheduler's next candidate: 18:30 today if that is still ahead,
\* else tomorrow, moved past Saturday and Sunday.
RECURSIVE SkipWeekend(_)
SkipWeekend(day) == IF Weekday(day) >= 5 THEN SkipWeekend(day + 1) ELSE day

NextCandidate == SkipWeekend(IF past_1830 THEN scan_day + 1 ELSE scan_day)

InitScan ==
    /\ scan_day = 0
    /\ past_1830 \in BOOLEAN
    /\ first_weekday \in {0, 4}
    /\ has_client \in BOOLEAN
    /\ scan_results = <<>>
    /\ tasks = <<>>
    /\ scan_task = 0
    /\ scan_progress = "idle"
    /\ cron_pc = IF has_client THEN "sleeping" ELSE "off"
    /\ cron_wake_day = NextCandidate
    /\ requests = 0
    /\ response = [kind |-> "none"]
    /\ ScorerIdle
    /\ RankIdle
    /\ RvIdle
    /\ SolverIdle
    /\ ChainIdle
    /\ EarningsIdle
    /\ ScanTableIdle
    /\ DailyIvIdle
    /\ SkewIdle
    /\ GetIdle
    /\ CsvIdle

\* POST /api/scan
TriggerScan ==
    /\ requests < MaxRequests
    /\ requests' = requests + 1
    /\ IF ScannedToday(scan_results, scan_day)
       THEN /\ response' = [kind |-> "ScanResponse",
                            scanned_at |-> scan_results[Len(scan_results)],
                            cached |-> TRUE]
            /\ UNCHANGED <<tasks, scan_task>>
       ELSE IF ScanInProgress(tasks, scan_task)
       THEN /\ response' = [kind |-> "JSONResponse", status |-> scan_progress]
            /\ UNCHANGED <<tasks, scan_task>>
       ELSE /\ tasks' = Append(tasks, "created")
            /\ scan_task' = Len(tasks) + 1
            /\ response' = [kind |-> "JSONResponse", status |-> "scanning"]
    /\ UNCHANGED <<scan_day, past_1830, first_weekday, has_client, scan_results,
                   scan_progress, cron_pc, cron_wake_day, nonScanVars>>

\* _background_scan begins: run_full_scan raises at once without a client,
\* and otherwise runs to its first await.
BackgroundScanBegins(t) ==
    /\ tasks[t] = "created"
    /\ IF has_client
       THEN tasks' = [tasks EXCEPT ![t] = "running"] /\ scan_progress' = "scanning"
       ELSE tasks' = [tasks EXCEPT ![t] = "done"] /\ scan_progress' = "error"
    /\ UNCHANGED <<scan_day, past_1830, first_weekday, has_client, scan_results,
                   scan_task, cron_pc, cron_wake_day, requests, response,
                   nonScanVars>>

\* run_full_scan stores its result and _background_scan completes.
BackgroundScanSucceeds(t) ==
    /\ tasks[t] = "running"
    /\ tasks' = [tasks EXCEPT ![t] = "done"]
    /\ scan_results' = StoreScanResult(scan_results, scan_day)
    /\ scan_progress' = "completed"
    /\ UNCHANGED <<scan_day, past_1830, first_weekday, has_client, scan_task,
                   cron_pc, cron_wake_day, requests, response, nonScanVars>>

\* run_full_scan raises and _background_scan records the error.
BackgroundScanFails(t) ==
    /\ tasks[t] = "running"
    /\ tasks' = [tasks EXCEPT ![t] = "done"]
    /\ scan_progress' = "error"
    /\ UNCHANGED <<scan_day, past_1830, first_weekday, has_client, scan_results,
                   scan_task, cron_pc, cron_wake_day, requests, response,
                   nonScanVars>>

\* _cron_loop: the sleep to the candidate ends, run_full_scan begins.
CronWakes ==
    /\ cron_pc = "sleeping"
    /\ scan_day > cron_wake_day \/ (scan_day = cron_wake_day /\ past_1830)
    /\ cron_pc' = "scanning"
    /\ scan_progress' = "scanning"
    /\ UNCHANGED <<scan_day, past_1830, first_weekday, has_client, scan_results,
                   tasks, scan_task, cron_wake_day, requests, response, nonScanVars>>

\* _cron_loop: the daily scan or its retry stores its result; the loop
\* picks its next candidate.
CronScanSucceeds ==
    /\ cron_pc \in {"scanning", "retry_scanning"}
    /\ scan_results' = StoreScanResult(scan_results, scan_day)
    /\ cron_pc' = "sleeping"
    /\ cron_wake_day' = NextCandidate
    /\ UNCHANGED <<scan_day, past_1830, first_weekday, has_client, tasks, scan_task,
                   scan_progress, requests, response, nonScanVars>>

\* _cron_loop: the daily scan raises; the loop sleeps five minutes.
CronScanFails ==
    /\ cron_pc = "scanning"
    /\ cron_pc' = "retry_sleep"
    /\ UNCHANGED <<scan_day, past_1830, first_weekday, has_client, scan_results,
                   tasks, scan_task, scan_progress, cron_wake_day, requests, response,
                   nonScanVars>>

\* _cron_loop: the five minutes are over, the retry begins.
CronRetryBegins ==
    /\ cron_pc = "retry_sleep"
    /\ cron_pc' = "retry_scanning"
    /\ scan_progress' = "scanning"
    /\ UNCHANGED <<scan_day, past_1830, first_weekday, has_client, scan_results,
                   tasks, scan_task, cron_wake_day, requests, response, nonScanVars>>

\* _cron_loop: the retry raises too; the loop picks its next candidate.
CronRetryFails ==
    /\ cron_pc = "retry_scanning"
    /\ cron_pc' = "sleeping"
    /\ cron_wake_day' = NextCandidate
    /\ UNCHANGED <<scan_day, past_1830, first_weekday, has_client, scan_results,
                   tasks, scan_task, scan_progress, requests, response, nonScanVars>>

\* The clock reaches 18:30 ET.
ReachScanTime ==
    /\ ~past_1830
    /\ past_1830' = TRUE
    /\ UNCHANGED <<scan_day, first_weekday, has_client, scan_results, tasks,
                   scan_task, scan_progress, cron_pc, cron_wake_day, requests,
                   response, nonScanVars>>

\* Midnight ET.
Midnight ==
    /\ past_1830
    /\ scan_day < MaxScanDays
    /\ scan_day' = scan_day + 1
    /\ past_1830' = FALSE
    /\ UNCHANGED <<first_weekday, has_client, scan_results, tasks, scan_task,
                   scan_progress, cron_pc, cron_wake_day, requests, response,
                   nonScanVars>>

NextScan ==
    \/ TriggerScan
    \/ \E t \in 1..Len(tasks) : BackgroundScanBegins(t)
    \/ \E t \in 1..Len(tasks) : BackgroundScanSucceeds(t)
    \/ \E t \in 1..Len(tasks) : BackgroundScanFails(t)
    \/ CronWakes
    \/ CronScanSucceeds
    \/ CronScanFails
    \/ CronRetryBegins
    \/ CronRetryFails
    \/ ReachScanTime
    \/ Midnight

SpecScan == InitScan /\ [][NextScan]_vars

(***************************************************************************)
(* The earnings endpoints of main.py: POST /api/earnings/refresh and GET   *)
(* /api/earnings/remaining.  A refresh runs without interruption up to its *)
(* first `await get_next_earnings(...)`, so the limit check and the        *)
(* increment are one step and the re-fetch that follows is another, which  *)
(* other requests and midnight may precede.                                *)
(***************************************************************************)
MaxEarnDays == 1
MaxEarnRequests == 5
MaxGets == 2
EARNINGS_REFRESH_LIMIT == 3

\* _get_earnings_remaining
GetEarningsRemaining(tr, day) ==
    IF tr.date # day THEN EARNINGS_REFRESH_LIMIT
    ELSE Max(0, EARNINGS_REFRESH_LIMIT - tr.count)

\* refresh_earnings: the tracker after `if _earnings_refresh_tracker["date"] != today`
TrackerForToday(tr, day) ==
    IF tr.date # day THEN [date |-> day, count |-> 0] ELSE tr

\* Faulty variant: the limit is compared with > instead of >=.
LimitReachedExclusive(count) == count > EARNINGS_REFRESH_LIMIT

\* `_earnings_refresh_tracker["count"] >= _EARNINGS_REFRESH_LIMIT`
LimitReached(count) == count >= EARNINGS_REFRESH_LIMIT

\* A response of one of the two endpoints; req numbers the requests of its kind.
EarningsReply(kind, earnings, remaining, req) ==
    [kind |-> kind, earnings |-> earnings, remaining |-> remaining, req |-> req]

\* The record of a refresh request: where its handler is, the day it began,
\* whether it reached clear_earnings_cache() and its local `remaining`.
RefreshHandler(at, cleared, remaining) ==
    [pc |-> at, day |-> earn_today, cleared |-> cleared, remaining |-> remaining]

InitEarnings ==
    /\ earn_today = 0
    /\ has_fmp_key \in BOOLEAN
    /\ tracker = [date |-> -1, count |-> 0]
    /\ refreshes = <<>>
    /\ performed = [d \in 0..MaxEarnDays |-> 0]
    /\ gets = 0
    /\ earn_reply = [kind |-> "none"]
    /\ ScorerIdle
    /\ RankIdle
    /\ RvIdle
    /\ SolverIdle
    /\ ChainIdle
    /\ ScanIdle
    /\ ScanTableIdle
    /\ DailyIvIdle
    /\ SkewIdle
    /\ GetIdle
    /\ CsvIdle

\* refresh_earnings without an FMP key: HTTPException(400)
RefreshWithoutKey ==
    /\ Len(refreshes) < MaxEarnRequests
    /\ ~has_fmp_key
    /\ refreshes' = Append(refreshes, RefreshHandler("HTTPException", FALSE, 0))
    /\ earn_reply' = EarningsReply("HTTPException", "none", 0, Len(refreshes) + 1)
    /\ UNCHANGED <<earn_today, has_fmp_key, tracker, performed, gets, nonEarningsVars>>

\* refresh_earnings at the limit: {"earnings": {}, "remaining": 0}
RefreshOverLimit ==
    /\ Len(refreshes) < MaxEarnRequests
    /\ has_fmp_key
    /\ LimitReached(TrackerForToday(tracker, earn_today).count)
    /\ tracker' = TrackerForToday(tracker, earn_today)
    /\ refreshes' = Append(refreshes, RefreshHandler("returned", FALSE, 0))
    /\ earn_reply' = EarningsReply("refresh", "empty", 0, Len(refreshes) + 1)
    /\ UNCHANGED <<earn_today, has_fmp_key, performed, gets, nonEarningsVars>>

\* refresh_earnings below the limit, up to its first await: the count is
\* incremented, `remaining` computed and the earnings cache cleared.
RefreshBegins ==
    /\ Len(refreshes) < MaxEarnRequests
    /\ has_fmp_key
    /\ LET tr == TrackerForToday(tracker, earn_today)
       IN  /\ ~LimitReached(tr.count)
           /\ tracker' = [tr EXCEPT !.count = tr.count + 1]
           /\ refreshes' = Append(refreshes,
                  RefreshHandler("fetching", TRUE,
                                 EARNINGS_REFRESH_LIMIT - (tr.count + 1)))
    /\ performed' = [performed EXCEPT ![earn_today] = performed[earn_today] + 1]
    /\ UNCHANGED <<earn_today, has_fmp_key, gets, earn_reply, nonEarningsVars>>

\* The re-fetch of refresh i is over: update_latest_scan_earnings and
\* {"earnings": results, "remaining": remaining}.
RefreshReturns(i) ==
    /\ refreshes[i].pc = "fetching"
    /\ refreshes' = [refreshes EXCEPT ![i].pc = "returned"]
    /\ earn_reply' = EarningsReply("refresh", "results", refreshes[i].remaining, i)
    /\ UNCHANGED <<earn_today, has_fmp_key, tracker, performed, gets, nonEarningsVars>>

\* GET /api/earnings/remaining
EarningsRemaining ==
    /\ gets < MaxGets
    /\ gets' = gets + 1
    /\ earn_reply' = EarningsReply("remaining", "none",
                                   GetEarningsRemaining(tracker, earn_today), gets + 1)
    /\ UNCHANGED <<earn_today, has_fmp_key, tracker, refreshes, performed, nonEarningsVars>>

\* Midnight: date.today() moves on.
EarningsMidnight ==
    /\ earn_today < MaxEarnDays
    /\ earn_today' = earn_today + 1
    /\ UNCHANGED <<has_fmp_key, tracker, refreshes, performed, gets, earn_reply,
                   nonEarningsVars>>

NextEarnings ==
    \/ RefreshWithoutKey
    \/ RefreshOverLimit
    \/ RefreshBegins
    \/ \E i \in 1..Len(refreshes) : RefreshReturns(i)
    \/ EarningsRemaining
    \/ EarningsMidnight

SpecEarnings == InitEarnings /\ [][NextEarnings]_vars

(***************************************************************************)
(* The scan_results table of database.py: store_scan_result and            *)
(* get_latest_scan.  A row is [id, scanned_at, regime, tickers,            *)
(* historical], the last three holding JSON text.  The values stored are   *)
(* the model_dump() output main.py passes: dicts with string keys, lists,  *)
(* numbers, strings, booleans and None, which json.loads(json.dumps(v))    *)
(* reproduces; a value is represented by a number and its JSON text by     *)
(* [json |-> value].                                                       *)
(***************************************************************************)
MaxStores == 52

JsonDumps(v) == [json |-> v]
JsonLoads(text) == text.json

\* The arguments of the k-th store_scan_result call.
ScanArgs(k, period) ==
    [scanned_at |-> k, regime |-> k % period, tickers |-> (k * k) % period,
     historical |-> (k + 1) % period]

\* INSERT INTO scan_results (...) VALUES (?, ?, ?, ?), the id being one more
\* than the last id handed out
InsertScanResult(table, seq, args) ==
    table \cup {[id |-> seq + 1,
                 scanned_at |-> args.scanned_at,
                 regime |-> JsonDumps(args.regime),
                 tickers |-> JsonDumps(args.tickers),
                 historical |-> JsonDumps(args.historical)]}

\* Faulty variant: ORDER BY id ASC, which keeps the oldest rows.
OldestIds(table, limit) ==
    {r.id : r \in {q \in table : Cardinality({p \in table : p.id < q.id}) < limit}}

\* SELECT id FROM scan_results ORDER BY id DESC LIMIT ?
LatestIds(table, limit) ==
    {r.id : r \in {q \in table : Cardinality({p \in table : p.id > q.id}) < limit}}

\* DELETE FROM scan_results WHERE id NOT IN (... LIMIT 50)
PruneScanResults(table) == {r \in table : r.id \in LatestIds(table, KeepRows)}

\* get_latest_scan
GetLatestScan(table) ==
    IF table = {} THEN [kind |-> "None"]
    ELSE LET row == CHOOSE r \in table : r.id \in LatestIds(table, 1)
         IN  [kind |-> "dict",
              id |-> row.id,
              scanned_at |-> row.scanned_at,
              regime |-> JsonLoads(row.regime),
              tickers |-> JsonLoads(row.tickers),
              historical |-> JsonLoads(row.historical)]

InitScanTable ==
    /\ scan_table = {}
    /\ scan_seq = 0
    /\ payload_period \in {1, 2, 3}
    /\ latest_scan = [after |-> 0, result |-> [kind |-> "pending"]]
    /\ ScorerIdle
    /\ RankIdle
    /\ RvIdle
    /\ SolverIdle
    /\ ChainIdle
    /\ ScanIdle
    /\ EarningsIdle
    /\ DailyIvIdle
    /\ SkewIdle
    /\ GetIdle
    /\ CsvIdle

\* store_scan_result(scanned_at, regime, tickers, historical)
CallStoreScanResult ==
    /\ scan_seq < MaxStores
    /\ scan_table' = PruneScanResults(
                         InsertScanResult(scan_table, scan_seq,
                                          ScanArgs(scan_seq + 1, payload_period)))
    /\ scan_seq' = scan_seq + 1
    /\ UNCHANGED <<payload_period, latest_scan, nonScanTableVars>>

\* get_latest_scan()
CallGetLatestScan ==
    /\ latest_scan' = [after |-> scan_seq, result |-> GetLatestScan(scan_table)]
    /\ UNCHANGED <<scan_table, scan_seq, payload_period, nonScanTableVars>>

NextScanTable == CallStoreScanResult \/ CallGetLatestScan

SpecScanTable == InitScanTable /\ [][NextScanTable]_vars

(***************************************************************************)
(* The daily_iv table of database.py: store_daily_iv and                   *)
(* get_historical_ivs.  A row is [ticker, date, atm_iv, rv30, vrp,         *)
(* term_slope]; a date is a day number, whose order is the order of the    *)
(* ISO date strings the table holds; None is written 0, both for as_of and *)
(* for lookback_days (`as_of or date.today()` and `if lookback_days:`      *)
(* treat None and 0 alike).                                                *)
(***************************************************************************)
MaxIvKeys == 4
MaxDate == 5
Tickers == {"SPY", "QQQ"}
Lookbacks == {0, 1, 2}
IvValues == { [atm_iv |-> 2000, rv30 |-> 1500, vrp |-> 500, term_slope |-> 950],
              [atm_iv |-> 2100, rv30 |-> 0, vrp |-> 0, term_slope |-> 0] }

DailyIvRow(ticker, d, vals) ==
    [ticker |-> ticker, date |-> d, atm_iv |-> vals.atm_iv, rv30 |-> vals.rv30,
     vrp |-> vals.vrp, term_slope |-> vals.term_slope]

\* Faulty variant: a plain INSERT without the ON CONFLICT clause and without
\* the primary key that would reject it.
InsertDailyIv(table, ticker, d, vals) == table \cup {DailyIvRow(ticker, d, vals)}

\* INSERT INTO daily_iv ... ON CONFLICT (ticker, date) DO UPDATE SET ...
UpsertDailyIv(table, ticker, d, vals) ==
    {r \in table : ~(r.ticker = ticker /\ r.date = d)} \cup {DailyIvRow(ticker, d, vals)}

\* d = (as_of or date.today()).isoformat()
StoreDate(as_of, day) == IF as_of = 0 THEN day ELSE as_of

\* cutoff = date.today() - timedelta(days=int(lookback_days * 1.5))
Cutoff(day, lookback_days) == day - (lookback_days * 3) \div 2

\* ORDER BY date DESC: the rows as a list, the latest date first
OrderByDateDesc(rows) ==
    LET Before(q, r) == \/ q.date > r.date
                        \/ q.date = r.date /\ q.atm_iv > r.atm_iv
    IN  [i \in 1..Cardinality(rows) |->
            CHOOSE r \in rows : Cardinality({q \in rows : Before(q, r)}) = i - 1]

\* get_historical_ivs(ticker, lookback_days)
GetHistoricalIvs(table, ticker, lookback_days, day) ==
    LET selected ==
            IF lookback_days # 0
            THEN {r \in table : r.ticker = ticker /\ r.date >= Cutoff(day, lookback_days)}
            ELSE {r \in table : r.ticker = ticker}
        ordered == OrderByDateDesc(selected)
        limited == IF lookback_days # 0
                   THEN SubSeq(ordered, 1, Min(lookback_days, Len(ordered)))
                   ELSE ordered
    IN  [i \in 1..Len(limited) |-> limited[i].atm_iv]

InitDailyIv ==
    /\ daily_iv = {}
    /\ db_today = MaxDate
    /\ written = <<>>
    /\ hist_result = [ticker |-> "", lookback_days |-> 0, ivs |-> <<>>, calls |-> 0]
    /\ ScorerIdle
    /\ RankIdle
    /\ RvIdle
    /\ SolverIdle
    /\ ChainIdle
    /\ ScanIdle
    /\ EarningsIdle
    /\ ScanTableIdle
    /\ SkewIdle
    /\ GetIdle
    /\ CsvIdle

\* store_daily_iv(ticker, atm_iv, rv30, vrp, term_slope, as_of); the writes
\* come before the reads, as in test_database, and touch at most MaxIvKeys
\* different (ticker, date) pairs.
CallStoreDailyIv(ticker, vals, as_of) ==
    /\ hist_result.calls = 0
    /\ Cardinality(DOMAIN written) < MaxIvKeys
    /\ LET d == StoreDate(as_of, db_today)
           key == <<ticker, d>>
       IN  /\ daily_iv' = UpsertDailyIv(daily_iv, ticker, d, vals)
           /\ written' = [k \in DOMAIN written \cup {key} |->
                             IF k = key THEN vals ELSE written[k]]
    /\ UNCHANGED <<db_today, hist_result, nonDailyIvVars>>

\* get_historical_ivs(ticker, lookback_days)
CallGetHistoricalIvs(ticker, lookback_days) ==
    /\ hist_result' = [ticker |-> ticker, lookback_days |-> lookback_days,
                       ivs |-> GetHistoricalIvs(daily_iv, ticker, lookback_days, db_today),
                       calls |-> 1]
    /\ UNCHANGED <<daily_iv, db_today, written, nonDailyIvVars>>

NextDailyIv ==
    \/ \E ticker \in Tickers, vals \in IvValues, as_of \in 0..(MaxDate - 1) :
          CallStoreDailyIv(ticker, vals, as_of)
    \/ \E ticker \in Tickers, lookback_days \in Lookbacks :
          CallGetHistoricalIvs(ticker, lookback_days)

SpecDailyIv == InitDailyIv /\ [][NextDailyIv]_vars

(***************************************************************************)
(* compute_skew (calculator.py), up to the points of the VolSkew it        *)
(* returns; skew_25d and the two slopes are computed from the points and   *)
(* are left out.  In this part a contract's implied_volatility is in units *)
(* of 0.00001 and its delta, a list that is empty for None, in units of    *)
(* 0.0001.  A SkewPoint's delta is in tenths (round(x, 1)) and its iv in   *)
(* hundredths of a percent (round(x, 2)).                                  *)
(***************************************************************************)
SkewChainLen == 2
SkewTargetDte == 30
SkewStrikes == {99, 105}
SkewExpirations == {30, 45}
SkewIvs == {3, 20000}
SkewDeltas == {<<>>, <<-504>>, <<-500>>, <<8996>>}

SkewContracts ==
    [strike : SkewStrikes, expiration : SkewExpirations, contract_type : {"put", "call"},
     implied_volatility : SkewIvs, delta : SkewDeltas]

SkewPoint(delta, iv, contract_type) ==
    [delta |-> delta, iv |-> iv, contract_type |-> contract_type]

\* round(c.implied_volatility * 100, 2)
PointIv(c) == RoundRatio(c.implied_volatility, 10)

\* has_greeks
HasGreeks(cs) == \E i \in 1..Len(cs) : cs[i].delta # <<>>

\* Faulty variant: the bounds -0.9 and -0.05 are included.
PutDeltaInRangeInclusive(c) ==
    c.delta # <<>> /\ -9000 <= c.delta[1] /\ c.delta[1] <= -500

\* `c.delta is not None and -0.9 < c.delta < -0.05`
PutDeltaInRange(c) == c.delta # <<>> /\ -9000 < c.delta[1] /\ c.delta[1] < -500

\* `c.delta is not None and 0.05 < c.delta < 0.9`
CallDeltaInRange(c) == c.delta # <<>> /\ 500 < c.delta[1] /\ c.delta[1] < 9000

\* round(abs(c.delta) * 100, 1)
PointDelta(c) == RoundRatio(Abs(c.delta[1]), 10)

\* 0.8 < moneyness < 1.0, moneyness = c.strike / spot_price
PutMoneynessInRange(c, spot) == 8 * spot < 10 * c.strike /\ c.strike < spot

\* 1.0 < moneyness < 1.2
CallMoneynessInRange(c, spot) == spot < c.strike /\ 10 * c.strike < 12 * spot

\* min(50, max(5, round((1 - moneyness) * 100 * 2, 1)))
PutPseudoDelta(c, spot) == Min(500, Max(50, RoundRatio((spot - c.strike) * 2000, spot)))

\* min(50, max(5, round((1 - (moneyness - 1) * 2) * 50, 1)))
CallPseudoDelta(c, spot) ==
    Min(500, Max(50, RoundRatio(500 * (3 * spot - 2 * c.strike), spot)))

\* compute_skew: the mode and the points, sorted by delta (put_contracts and
\* call_contracts are the source's puts and calls)
ComputeSkew(cs, spot, target, day) ==
    LET expiry_dte == ExpiryDte(cs, day)
        best_exp == MinBy(expiry_dte,
                          [i \in DOMAIN expiry_dte |-> Abs(expiry_dte[i][2] - target)])[1]
        chain == ChainAt(cs, best_exp)
        put_contracts == SelectSeq(chain, LAMBDA c : c.contract_type = "put" /\ HasIv(c))
        call_contracts == SelectSeq(chain, LAMBDA c : c.contract_type = "call" /\ HasIv(c))
        by_delta ==
            [i \in 1..Len(SelectSeq(put_contracts, PutDeltaInRange)) |->
                LET c == SelectSeq(put_contracts, PutDeltaInRange)[i]
                IN  SkewPoint(PointDelta(c), PointIv(c), "put")]
            \o [i \in 1..Len(SelectSeq(call_contracts, CallDeltaInRange)) |->
                LET c == SelectSeq(call_contracts, CallDeltaInRange)[i]
                IN  SkewPoint(PointDelta(c), PointIv(c), "call")]
        in_puts == SelectSeq(put_contracts, LAMBDA c : PutMoneynessInRange(c, spot))
        in_calls == SelectSeq(call_contracts, LAMBDA c : CallMoneynessInRange(c, spot))
        by_moneyness ==
            [i \in 1..Len(in_puts) |->
                SkewPoint(PutPseudoDelta(in_puts[i], spot), PointIv(in_puts[i]), "put")]
            \o [i \in 1..Len(in_calls) |->
                SkewPoint(CallPseudoDelta(in_calls[i], spot), PointIv(in_calls[i]), "call")]
        points == IF HasGreeks(put_contracts \o call_contracts) THEN by_delta ELSE by_moneyness
    IN  IF expiry_dte = <<>> THEN [mode |-> "empty", points |-> <<>>]
        ELSE [mode |-> IF HasGreeks(put_contracts \o call_contracts) THEN "delta" ELSE "moneyness",
              points |-> StableSort(points, [i \in DOMAIN points |-> points[i].delta])]

InitSkew ==
    /\ skew_contracts \in [1..SkewChainLen -> SkewContracts]
    /\ skew_spot = 100
    /\ skew_result = [mode |-> "pending", points |-> <<>>]
    /\ ScorerIdle
    /\ RankIdle
    /\ RvIdle
    /\ SolverIdle
    /\ ChainIdle
    /\ ScanIdle
    /\ EarningsIdle
    /\ ScanTableIdle
    /\ DailyIvIdle
    /\ GetIdle
    /\ CsvIdle

\* compute_skew(contracts, spot_price), target_dte = 30, run on day 0
CallComputeSkew ==
    /\ skew_result.mode = "pending"
    /\ skew_result' = ComputeSkew(skew_contracts, skew_spot, SkewTargetDte, 0)
    /\ UNCHANGED <<skew_contracts, skew_spot, nonSkewVars>>

NextSkew == CallComputeSkew

SpecSkew == InitSkew /\ [][NextSkew]_vars

(***************************************************************************)
(* MarketDataClient._get (marketdata_client.py): one call, one action per  *)
(* await and per way a request can be answered.  An answer is "429", a     *)
(* 2xx answer whose JSON has the status "ok", "error" or "no_data", a 2xx  *)
(* answer that is not JSON ("bad_json"), "403", "402", another status      *)
(* raise_for_status rejects ("500") or a transport failure ("transport").  *)
(* RateLimiter.acquire only delays its caller; its sleep is not a state.   *)
(***************************************************************************)
MaxRetries == 5

\* Faulty variant: the last attempt is not recognised, so nothing is re-raised.
NeverLastAttempt(a) == FALSE

\* `attempt == max_retries - 1`
LastAttempt(a) == a = MaxRetries - 1

\* `return ...` and `raise ...`
GetReturns(what) == [kind |-> "return", value |-> what]
GetRaises(exception) == [kind |-> "raise", value |-> exception]

InitGet ==
    /\ get_pc = "acquire"
    /\ attempt = 0
    /\ acquires = 0
    /\ responses = <<>>
    /\ get_outcome = [kind |-> "pending"]
    /\ ScorerIdle
    /\ RankIdle
    /\ RvIdle
    /\ SolverIdle
    /\ ChainIdle
    /\ ScanIdle
    /\ EarningsIdle
    /\ ScanTableIdle
    /\ DailyIvIdle
    /\ SkewIdle
    /\ CsvIdle

\* await self.limiter.acquire()
AcquireLimiter ==
    /\ get_pc = "acquire"
    /\ acquires' = acquires + 1
    /\ get_pc' = "request"
    /\ UNCHANGED <<attempt, responses, get_outcome, nonGetVars>>

\* The request is answered 429: sleep, then `continue`.
RateLimited ==
    /\ get_pc = "request"
    /\ responses' = Append(responses, "429")
    /\ get_pc' = "sleep"
    /\ UNCHANGED <<attempt, acquires, get_outcome, nonGetVars>>

\* A 2xx answer with JSON: {} for the status "error" or "no_data", else the data.
Answered(status) ==
    /\ get_pc = "request"
    /\ responses' = Append(responses, status)
    /\ get_outcome' = GetReturns(IF status \in {"error", "no_data"} THEN "empty" ELSE "data")
    /\ get_pc' = "done"
    /\ UNCHANGED <<attempt, acquires, nonGetVars>>

\* A 2xx answer that is not JSON: resp.json() raises and nothing catches it.
AnsweredBadJson ==
    /\ get_pc = "request"
    /\ responses' = Append(responses, "bad_json")
    /\ get_outcome' = GetRaises("ValueError")
    /\ get_pc' = "done"
    /\ UNCHANGED <<attempt, acquires, nonGetVars>>

\* raise_for_status raises on a 403 or a 402: PermissionError.
PermissionDenied(code) ==
    /\ get_pc = "request"
    /\ responses' = Append(responses, code)
    /\ get_outcome' = GetRaises("PermissionError")
    /\ get_pc' = "done"
    /\ UNCHANGED <<attempt, acquires, nonGetVars>>

\* Another HTTPStatusError, or a RequestError: re-raised on the last
\* attempt, followed by a sleep of a second otherwise.
RequestFails(answer, exception) ==
    /\ get_pc = "request"
    /\ responses' = Append(responses, answer)
    /\ IF LastAttempt(attempt)
       THEN get_outcome' = GetRaises(exception) /\ get_pc' = "done"
       ELSE get_pc' = "sleep" /\ UNCHANGED get_outcome
    /\ UNCHANGED <<attempt, acquires, nonGetVars>>

\* The sleep is over: the next iteration, or `return {}` after the loop.
SleepEnds ==
    /\ get_pc = "sleep"
    /\ attempt' = attempt + 1
    /\ IF attempt + 1 < MaxRetries
       THEN get_pc' = "acquire" /\ UNCHANGED get_outcome
       ELSE get_pc' = "done" /\ get_outcome' = GetReturns("empty")
    /\ UNCHANGED <<acquires, responses, nonGetVars>>

NextGet ==
    \/ AcquireLimiter
    \/ RateLimited
    \/ \E status \in {"ok", "error", "no_data"} : Answered(status)
    \/ AnsweredBadJson
    \/ \E code \in {"403", "402"} : PermissionDenied(code)
    \/ RequestFails("500", "HTTPStatusError")
    \/ RequestFails("transport", "RequestError")
    \/ SleepEnds

SpecGet == InitGet /\ [][NextGet]_vars

(***************************************************************************)
(* append_daily_csv (csv_store.py) for one ticker.  A date is a calendar   *)
(* day [y, m, d]; as_of is its "%Y-%m-%d" text, a sequence of character    *)
(* codes, and the code compares and sorts these texts, never the days.  A  *)
(* number is in thousandths (term_slope in ten-thousandths) before it is   *)
(* rounded, and an Optional is a sequence of at most one number, so that   *)
(* the empty cell written for None is <<>>.                                *)
(***************************************************************************)
CsvDays ==
    { [y |-> 2024, m |-> 12, d |-> 31], [y |-> 2025, m |-> 1, d |-> 2],
      [y |-> 2025, m |-> 1, d |-> 10], [y |-> 2025, m |-> 2, d |-> 1],
      [y |-> 2025, m |-> 10, d |-> 1] }

CsvMetrics ==
    { [spot |-> 100004, atm_iv |-> 25126, rv30 |-> <<20004>>, vrp |-> <<5122>>,
       term_slope |-> <<10004>>],
      [spot |-> 101996, atm_iv |-> 31004, rv30 |-> <<>>, vrp |-> <<>>,
       term_slope |-> <<>>] }

\* strftime("%Y-%m-%d"): zero-padded decimal digits ("0" is 48) and hyphens (45).
Digit(n) == 48 + n
IsoDate(day) ==
    << Digit(day.y \div 1000), Digit((day.y \div 100) % 10),
       Digit((day.y \div 10) % 10), Digit(day.y % 10), 45,
       Digit(day.m \div 10), Digit(day.m % 10), 45,
       Digit(day.d \div 10), Digit(day.d % 10) >>

\* Python's order on str: by the first code that differs, a prefix first.
RECURSIVE StrLess(_, _)
StrLess(a, b) ==
    IF b = <<>> THEN FALSE
    ELSE IF a = <<>> THEN TRUE
    ELSE IF Head(a) # Head(b) THEN Head(a) < Head(b)
    ELSE StrLess(Tail(a), Tail(b))

DAILY_HEADER == <<"date", "spot", "atm_iv", "rv30", "vrp", "term_slope">>

\* `round(x, n) if x is not None else ""`
RoundedCell(opt, q) == IF opt = <<>> THEN <<>> ELSE <<RoundRatio(opt[1], q)>>

\* new_row
NewRow(as_of, metrics) ==
    [date |-> as_of,
     spot |-> RoundRatio(metrics.spot, 10),
     atm_iv |-> RoundRatio(metrics.atm_iv, 10),
     rv30 |-> RoundedCell(metrics.rv30, 10),
     vrp |-> RoundedCell(metrics.vrp, 10),
     term_slope |-> RoundedCell(metrics.term_slope, 10)]

\* _ensure_csv: a missing file is created with the header alone.
EnsureCsv(file, header) ==
    IF file.exists THEN file ELSE [exists |-> TRUE, header |-> header, rows |-> <<>>]

\* Faulty variant: the date is never found.
DateNeverExists(rows, as_of) == FALSE

\* `any(row and row[0] == as_of for row in rows)`
DateAlreadyExists(rows, as_of) == \E i \in DOMAIN rows : rows[i].date = as_of

\* One step of a stable descending sort: row goes behind every row whose
\* key is not smaller than its own.
RECURSIVE InsertDescending(_, _)
InsertDescending(sorted, row) ==
    IF sorted = <<>> THEN <<row>>
    ELSE IF StrLess(Head(sorted).date, row.date) THEN <<row>> \o sorted
    ELSE <<Head(sorted)>> \o InsertDescending(Tail(sorted), row)

\* `rows.sort(key=lambda r: r[0] if r else "", reverse=True)`
RECURSIVE SortDescending(_)
SortDescending(rows) ==
    IF rows = <<>> THEN <<>>
    ELSE InsertDescending(SortDescending(SubSeq(rows, 1, Len(rows) - 1)), rows[Len(rows)])

InitCsv ==
    /\ csv_file = [exists |-> FALSE, header |-> <<>>, rows |-> <<>>]
    /\ csv_call = [made |-> FALSE]
    /\ ScorerIdle
    /\ RankIdle
    /\ RvIdle
    /\ SolverIdle
    /\ ChainIdle
    /\ ScanIdle
    /\ EarningsIdle
    /\ ScanTableIdle
    /\ DailyIvIdle
    /\ SkewIdle
    /\ GetIdle

\* append_daily_csv, when the date is in the file already: an early return.
AppendSkipsKnownDate(day, metrics) ==
    LET file == EnsureCsv(csv_file, DAILY_HEADER)
        as_of == IsoDate(day)
    IN  /\ DateAlreadyExists(file.rows, as_of)
        /\ csv_file' = file
        /\ csv_call' = [made |-> TRUE, as_of |-> as_of, metrics |-> metrics, wrote |-> FALSE]
        /\ UNCHANGED nonCsvVars

\* append_daily_csv, otherwise: append, sort, rewrite the file.
AppendWritesRow(day, metrics) ==
    LET file == EnsureCsv(csv_file, DAILY_HEADER)
        as_of == IsoDate(day)
    IN  /\ ~DateAlreadyExists(file.rows, as_of)
        /\ csv_file' = [file EXCEPT !.rows =
                            SortDescending(Append(file.rows, NewRow(as_of, metrics)))]
        /\ csv_call' = [made |-> TRUE, as_of |-> as_of, metrics |-> metrics, wrote |-> TRUE]
        /\ UNCHANGED nonCsvVars

NextCsv ==
    \/ \E day \in CsvDays, metrics \in CsvMetrics : AppendSkipsKnownDate(day, metrics)
    \/ \E day \in CsvDays, metrics \in CsvMetrics : AppendWritesRow(day, metrics)

SpecCsv == InitCsv /\ [][NextCsv]_vars

(***************************************************************************)
(* Properties of score_opportunity, checked under SpecScorer.              *)
(***************************************************************************)
Returned == pc = "done"
AfterRegime == pc \in {"clamp", "recommend", "construct", "done"}

\* The sum score_opportunity clamps when the escalation rule is left out.
ScoreWithoutEscalation ==
    VrpScore(surface.vrp_ratio) - VrpPenalty(surface.vrp, params.min_vrp)
    + IvRankScore(surface.iv_rank)
    - IvRankPenalty(surface.iv_rank, params.min_iv_rank)
    + TermContribution(surface.slope)
    - RvAccelPenalty(surface.rv_acceleration)
    + SkewScore(Abs(surface.skew_25d))
    - SlopeRegimePenalty(surface.slope)

\* C1: score_opportunity never stops before it returns, and it returns a
\* signal_score that is an integer in 0..100, a regime in {NORMAL, CAUTION,
\* DANGER} and a recommendation in {SELL PREMIUM, CONDITIONAL, REDUCE SIZE,
\* AVOID, NO EDGE}.
C1_ScoreRegimeRecommendationInRange ==
    /\ ~Returned => ENABLED NextScorer
    /\ Returned =>
        /\ score \in 0..100
        /\ regime \in {"NORMAL", "CAUTION", "DANGER"}
        /\ rec \in {"SELL PREMIUM", "CONDITIONAL", "REDUCE SIZE", "AVOID", "NO EDGE"}

\* A return whose raw sum was negative and was clamped to 0.
C1_Witness ==
    /\ Returned
    /\ ScoreWithoutEscalation < 0
    /\ score = 0
    /\ regime = "DANGER"
    /\ rec = "AVOID"

\* C2: the returned regime is DANGER if and only if the term slope is
\* > 1.05; the iv_rank/rv_acceleration escalation neither produces DANGER
\* nor removes it.
C2_DangerIffSlopeAbove105 ==
    pc \in {"escalate", "clamp", "recommend", "construct", "done"} =>
        (regime = "DANGER" <=> surface.slope > 1050)

\* A return after the escalation fired on a surface already in DANGER.
C2_Witness ==
    /\ Returned
    /\ EscalationFires(surface.iv_rank, surface.rv_acceleration)
    /\ surface.slope > 1050
    /\ regime = "DANGER"

\* C3: the recommendation is a function of (regime, signal_score) in the
\* priority order DANGER -> AVOID, CAUTION -> REDUCE SIZE, else score >= 70
\* -> SELL PREMIUM, 55 <= score < 70 -> CONDITIONAL, score < 55 -> NO EDGE;
\* hence AVOID if and only if DANGER.
C3_RecommendationPriority ==
    Returned =>
        /\ rec = (IF regime = "DANGER" THEN "AVOID"
                  ELSE IF regime = "CAUTION" THEN "REDUCE SIZE"
                  ELSE IF score >= 70 THEN "SELL PREMIUM"
                  ELSE IF score >= 55 THEN "CONDITIONAL"
                  ELSE "NO EDGE")
        /\ (rec = "AVOID" <=> regime = "DANGER")

\* A CAUTION result whose score alone would have earned CONDITIONAL.
C3_Witness ==
    /\ Returned
    /\ regime = "CAUTION"
    /\ score >= 55
    /\ rec = "REDUCE SIZE"

\* C4: the VRP section adds clamp(0, 25, (vrp_ratio - 1) x 30), and whenever
\* vrp < 0 or vrp < params.min_vrp it adds a penalty flag and subtracts 10.
C4_VrpPenaltyWhenNegativeOrBelowMin ==
    [][pc = "vrp" =>
        LET low == surface.vrp < 0 \/ surface.vrp < params.min_vrp
        IN  /\ score' = score + Max(0, Min(25000, (surface.vrp_ratio - 1000) * 30))
                              - (IF low THEN 10000 ELSE 0)
            /\ Len(flags') = Len(flags) + (IF low THEN 1 ELSE 0)]_vars

\* C5: the term-structure section changes the score by +18 when slope <
\* 0.85, +12 when 0.85 <= slope < 0.95, +6 when 0.95 <= slope < 1.0, and by
\* -5 together with the backwardation flag when slope >= 1.0.
C5_TermStructureScoreChange ==
    [][pc = "term" =>
        /\ score' - score = (IF surface.slope < 850 THEN 18000
                             ELSE IF surface.slope < 950 THEN 12000
                             ELSE IF surface.slope < 1000 THEN 6000
                             ELSE -5000)
        /\ flags' = (IF surface.slope >= 1000
                     THEN Append(flags, FlagBackwardation) ELSE flags)]_vars

\* C6: whenever iv_rank > 90 and rv_acceleration > 1.1 the regime returned
\* is CAUTION or DANGER (DANGER exactly when slope > 1.05), the 'extreme IV
\* + rising RV' flag is the last entry of flags, and the escalation leaves
\* the score alone: signal_score is the clamped sum of the other sections.
C6_EscalationOnlyAddsFlag ==
    /\ [][(pc = "escalate"
           /\ EscalationFires(surface.iv_rank, surface.rv_acceleration)) =>
            /\ score' = score
            /\ flags' = Append(flags, FlagExtremeIv)
            /\ regime' = (IF regime = "DANGER" THEN "DANGER" ELSE "CAUTION")]_vars
    /\ []((AfterRegime
           /\ EscalationFires(surface.iv_rank, surface.rv_acceleration)) =>
            /\ regime \in {"CAUTION", "DANGER"}
            /\ (regime = "DANGER" <=> surface.slope > 1050)
            /\ flags # <<>>
            /\ flags[Len(flags)] = FlagExtremeIv
            /\ Returned =>
                score = Max(0, Min(100, IntTrunc(ScoreWithoutEscalation))))

\* A return where only the escalation made the regime CAUTION.
C6_Witness ==
    /\ Returned
    /\ EscalationFires(surface.iv_rank, surface.rv_acceleration)
    /\ surface.slope <= 1000
    /\ regime = "CAUTION"
    /\ flags[Len(flags)] = FlagExtremeIv
    /\ score > 0

\* C7: vrp_ratio >= 1.57, vrp >= min_vrp, min_iv_rank <= iv_rank,
\* 85 <= iv_rank <= 90, slope < 0.85 and rv_acceleration <= 1.05 give
\* signal_score >= 60, regime NORMAL and SELL PREMIUM or CONDITIONAL.
C7_RichPremiumScenario ==
    (/\ Returned
     /\ surface.vrp_ratio >= 1570
     /\ surface.vrp >= params.min_vrp
     /\ params.min_iv_rank <= surface.iv_rank
     /\ surface.iv_rank >= 850
     /\ surface.iv_rank <= 900
     /\ surface.slope < 850
     /\ surface.rv_acceleration <= 1050) =>
        /\ score >= 60
        /\ regime = "NORMAL"
        /\ rec \in {"SELL PREMIUM", "CONDITIONAL"}

\* The scenario of test_score_opportunity: it scores 66, CONDITIONAL.
C7_Witness ==
    /\ Returned
    /\ surface = [vrp_ratio |-> 1570, vrp |-> 800, iv_rank |-> 850,
                  slope |-> 800, rv_acceleration |-> 857, skew_25d |-> 500]
    /\ params = DefaultParams
    /\ score = 66
    /\ regime = "NORMAL"
    /\ rec = "CONDITIONAL"

\* C8: the trade-construction suggestion is a lookup on regime and iv_rank
\* band (DANGER: no position, N/A, N/A, 0%; CAUTION: 10-15 delta, 21-30
\* DTE, 1-2%; NORMAL with iv_rank >= 80: 16-20 delta, 30-45 DTE, 2-5%, the
\* structure by vrp > 8, else vrp > 4, else strict width limits; NORMAL
\* with iv_rank < 80: 20-30 delta narrow spread, 45-60 DTE, 2-3%), and a
\* max notional of 0% is returned if and only if the regime is DANGER.
C8_TradeConstructionLookup ==
    Returned =>
        /\ regime = "DANGER" =>
            suggestion = [delta |-> "N/A", structure |-> "No position recommended",
                          dte |-> "N/A", notional |-> "0%"]
        /\ regime = "CAUTION" =>
            suggestion = [delta |-> "10-15D",
                          structure |-> "Iron condor or wide put spread (defined risk only)",
                          dte |-> "21-30 DTE", notional |-> "1-2% portfolio"]
        /\ (regime = "NORMAL" /\ surface.iv_rank >= 800) =>
            /\ suggestion.delta = "16-20D"
            /\ suggestion.dte = "30-45 DTE"
            /\ suggestion.notional = "2-5% portfolio"
            /\ surface.vrp > 800 =>
                suggestion.structure = "Short strangle or jade lizard if directional"
            /\ (surface.vrp > 400 /\ surface.vrp <= 800) =>
                suggestion.structure = "Iron condor or put credit spread"
            /\ surface.vrp <= 400 =>
                suggestion.structure = "Put credit spread with strict width limits"
        /\ (regime = "NORMAL" /\ surface.iv_rank < 800) =>
            suggestion = [delta |-> "20-30D",
                          structure |-> "Put credit spread, narrow width",
                          dte |-> "45-60 DTE", notional |-> "2-3% portfolio"]
        /\ (suggestion.notional = "0%" <=> regime = "DANGER")

\* A NORMAL result on the iv_rank = 80 band edge with vrp exactly 8.
C8_Witness ==
    /\ Returned
    /\ regime = "NORMAL"
    /\ surface.iv_rank = 800
    /\ surface.vrp = 800
    /\ suggestion.delta = "16-20D"
    /\ suggestion.structure = "Iron condor or put credit spread"

(***************************************************************************)
(* Properties of compute_iv_rank, checked under SpecRank.                  *)
(***************************************************************************)
\* C9: compute_iv_rank returns exactly (50.0, 50.0), whatever current_iv,
\* when historical_ivs is empty or has fewer than 20 values.
C9_DefaultOnShortHistory ==
    (calls >= 1 /\ Len(historical_ivs) < 20) => rank_result = <<500, 500>>

\* 19 values spanning 20.00..35.00 and a current_iv above them all.
C9_Witness ==
    /\ calls >= 1
    /\ Len(historical_ivs) = 19
    /\ historical_ivs[1] = 2000
    /\ historical_ivs[19] = 3500
    /\ current_iv = 4000
    /\ rank_result = <<500, 500>>

\* C10: for a fixed history of at least 20 values iv_rank is non-decreasing
\* in current_iv; when max - min >= 0.1 it is 0 at current_iv = min(hist)
\* and 100 at current_iv = max(hist).
C10_RankMonotoneWithEndpoints ==
    Len(historical_ivs) >= 20 =>
        /\ (calls >= 2 /\ prev_iv <= current_iv) => prev_result[1] <= rank_result[1]
        /\ (calls >= 1 /\ SeqMax(historical_ivs) - SeqMin(historical_ivs) >= 10) =>
            /\ current_iv = SeqMin(historical_ivs) => rank_result[1] = 0
            /\ current_iv = SeqMax(historical_ivs) => rank_result[1] = 1000

\* Two calls on a history whose range is exactly 0.1: min first, then max.
C10_Witness ==
    /\ calls = 2
    /\ Len(historical_ivs) >= 20
    /\ SeqMax(historical_ivs) - SeqMin(historical_ivs) = 10
    /\ prev_iv = SeqMin(historical_ivs)
    /\ current_iv = SeqMax(historical_ivs)
    /\ prev_result[1] = 0
    /\ rank_result[1] = 1000


\* C11: for a history of at least 20 values both results lie in [0, 100];
\* iv_rank is (current - min) / (max - min) x 100 clamped to [0, 100], or
\* 50.0 when max - min < 0.1; iv_percentile is the percentage of historical
\* values strictly less than current_iv (equal values are not counted).
C11_RankAndPercentileFormulas ==
    (calls >= 1 /\ Len(historical_ivs) >= 20) =>
        LET lo == SeqMin(historical_ivs)
            hi == SeqMax(historical_ivs)
            n == Len(historical_ivs)
            notLess == Cardinality({i \in 1..n : historical_ivs[i] >= current_iv})
        IN  /\ rank_result[1] \in 0..1000
            /\ rank_result[2] \in 0..1000
            /\ rank_result[1] =
                (IF hi - lo < 10 THEN 500
                 ELSE IF current_iv <= lo THEN 0
                 ELSE IF current_iv >= hi THEN 1000
                 ELSE RoundRatio((current_iv - lo) * 1000, hi - lo))
            /\ rank_result[2] = RoundRatio((n - notLess) * 1000, n)

\* current_iv equals the historical maximum: rank 100, percentile below 100.
C11_Witness ==
    /\ calls >= 1
    /\ Len(historical_ivs) >= 20
    /\ current_iv = SeqMax(historical_ivs)
    /\ SeqMax(historical_ivs) - SeqMin(historical_ivs) >= 10
    /\ rank_result[1] = 1000
    /\ rank_result[2] > 0
    /\ rank_result[2] < 1000

(***************************************************************************)
(* Properties of compute_realized_vol, checked under SpecRv.               *)
(***************************************************************************)
RvReturned == rv_result.status # "none"

\* C12: compute_realized_vol raises (and returns nothing) whenever fewer
\* than 11 bars are supplied; with at least 11 bars, each of rv20, rv30 and
\* rv60 whose window is longer than the number of log returns (bars - 1)
\* equals the next-smaller window's value, so 11 bars give
\* rv20 = rv30 = rv60 = rv10.
C12_RaisesOrFallsBack ==
    RvReturned =>
        /\ (Len(bars) < 11) <=> (rv_result = [status |-> "ValueError"])
        /\ Len(bars) >= 11 =>
              /\ (Len(bars) - 1 < 20 => rv_result.rv20 = rv_result.rv10)
              /\ (Len(bars) - 1 < 30 => rv_result.rv30 = rv_result.rv20)
              /\ (Len(bars) - 1 < 60 => rv_result.rv60 = rv_result.rv30)
              /\ (Len(bars) = 11 =>
                    /\ rv_result.rv20 = rv_result.rv10
                    /\ rv_result.rv30 = rv_result.rv10
                    /\ rv_result.rv60 = rv_result.rv10)

\* Twenty bars (19 log returns) whose last ten returns are calmer than the
\* older ones: rv20 falls back to a positive rv10.
C12_Witness ==
    /\ RvReturned
    /\ Len(bars) = 20
    /\ bars[2] - bars[1] = 20
    /\ bars[20] - bars[19] = 5
    /\ rv_result.rv10 > 0
    /\ rv_result.rv20 = rv_result.rv10
    /\ rv_result.rv60 = rv_result.rv10

(***************************************************************************)
(* Properties of compute_iv_from_price, checked under SpecSolver.          *)
(***************************************************************************)
SolverReturned == sol_pc = "done"

\* C13: compute_iv_from_price returns None without running a bisection
\* step whenever option_price <= 0, spot <= 0, strike <= 0 or
\* dte_days <= 0, and whenever option_price is below 0.95 times the
\* discounted intrinsic value.
C13_RejectsWithoutBisection ==
    SolverReturned =>
        LET a == sol_args
            rejected ==
                \/ a.option_price <= 0 \/ a.spot <= 0
                \/ a.strike <= 0 \/ a.dte_days <= 0
                \/ a.option_price < FMul(Intrinsic(a), 950000)
        IN  rejected => /\ sol_result.kind = "None"
                        /\ sol_iter = 0
                        /\ sol_mid = 0
                        /\ sol_lo = 0

\* Both kinds of rejection: a call with dte_days = 0 and one priced at 15
\* against an intrinsic value of about 20.
C13_Witness ==
    /\ SolverReturned
    /\ sol_result.kind = "None"
    /\ sol_iter = 0
    /\ \/ sol_args.dte_days = 0 /\ sol_args.option_price > 0
          /\ sol_args.spot > 0 /\ sol_args.strike > 0
       \/ sol_args.dte_days = 30 /\ sol_args.option_price = 15 * One
          /\ sol_args.spot = 100 * One /\ sol_args.strike = 80 * One
          /\ sol_args.is_call

\* The bounds of the search and the order of lo, mid and hi.
BisectionInRange ==
    /\ sol_iter <= 100
    /\ sol_pc = "bisect" \/ sol_result.kind = "float" =>
          /\ 10000 <= sol_lo /\ sol_lo <= sol_hi /\ sol_hi <= 5 * One
          /\ sol_iter > 0 => sol_lo <= sol_mid /\ sol_mid <= sol_hi
    /\ sol_result.kind = "float" =>
          10000 <= sol_result.value /\ sol_result.value <= 5 * One

\* A loop that ran out returns the final midpoint exactly when its relative
\* price error is below 5%.
ExhaustedReturnsWithinFivePercent ==
    SolverReturned /\ sol_result.via = "exhausted" =>
        LET final == (sol_lo + sol_hi) \div 2
            err == Abs(PriceAt(sol_args, final) - sol_args.option_price)
            close == err < FMul(50000, sol_args.option_price)
        IN  /\ sol_iter = 100
            /\ sol_mid = final
            /\ close => sol_result = ReturnIv(final, "exhausted")
            /\ ~close => sol_result.kind = "None"

\* Every step of the loop either returns or begins the next of at most 100
\* iterations, so the loop cannot run on.
BisectionProgress ==
    sol_pc = "bisect" =>
        \/ sol_pc' = "done"
        \/ sol_pc' = "bisect" /\ sol_iter' = sol_iter + 1 /\ sol_iter' <= 100

\* C14: the bisection of compute_iv_from_price always terminates: it makes
\* at most 100 iterations, every volatility it evaluates or returns lies
\* in [0.01, 5.00] with lo <= mid <= hi at every step, and a loop that ends
\* without early convergence returns the final midpoint only if its
\* relative price error is below 5%, otherwise no solution.
C14_BoundedBisectionTerminates ==
    /\ [](BisectionInRange /\ ExhaustedReturnsWithinFivePercent)
    /\ [][BisectionProgress]_vars

\* A loop that ran all 100 iterations and returned its final midpoint (a
\* call priced between 95% and 100% of its intrinsic value).
C14_Witness ==
    /\ SolverReturned
    /\ sol_iter = 100
    /\ sol_result.kind = "float"
    /\ sol_result.via = "exhausted"
    /\ sol_args.option_price = 19900000

\* C15 as stated: the volatility returned for the Black-Scholes call price
\* at sigma (0.05 <= sigma <= 2.0, 0 < T <= 2) is within 0.01 of sigma.
C15_RoundTripWithinOneVolPoint ==
    SolverReturned /\ sol_args.sigma > 0 =>
        /\ sol_result.kind = "float"
        /\ Abs(sol_result.value - sol_args.sigma) <= 10000

\* C15 as amended: for the Black-Scholes call price at sigma, if that price
\* is positive the solver returns a volatility in [0.01, 5.00] whose own
\* Black-Scholes price is within 0.001 of the given price (within 5% of it
\* if the 100 iterations were used up); it returns None only for a price
\* that is not positive.
C15_RoundTripWithinPriceTolerance ==
    SolverReturned /\ sol_args.sigma > 0 =>
        IF sol_args.option_price <= 0 THEN sol_result.kind = "None"
        ELSE /\ sol_result.kind = "float"
             /\ 10000 <= sol_result.value /\ sol_result.value <= 5 * One
             /\ LET err == Abs(PriceAt(sol_args, sol_result.value)
                               - sol_args.option_price)
                IN  \/ err < 1000
                    \/ sol_iter = 100 /\ err < FMul(50000, sol_args.option_price)

\* The call priced at sigma = 0.05 with spot 100, strike 80 and 30 days:
\* the solver stops at 0.1659, whose price is within 0.001.
C15_Witness ==
    /\ SolverReturned
    /\ sol_args.sigma = 50000
    /\ sol_args.spot = 100 * One
    /\ sol_args.strike = 80 * One
    /\ sol_args.dte_days = 30
    /\ sol_result.kind = "float"
    /\ Abs(sol_result.value - sol_args.sigma) > 100000

(***************************************************************************)
(* Properties of the option-chain functions, checked under SpecChain.      *)
(***************************************************************************)
\* The chain of C16: strikes 480..520, each raw IV rising with
\* |strike - 500| alone, spot 500, expirations 30 and 60 days out.
IsTestChain ==
    /\ Len(contracts) = 36
    /\ spot_price = 500
    /\ \A i \in 1..Len(contracts) :
          /\ contracts[i].expiration \in {30, 60}
          /\ contracts[i].implied_volatility
                = contracts[17].implied_volatility
                  + 10 * Abs(contracts[i].strike - 500)
          /\ contracts[17].strike = 500
          /\ contracts[17].implied_volatility > 0

AtmIvCalled == last_call.fn \in {"compute_atm_iv", "compute_atm_iv_historical"}

\* The raw IV, in percent, of the contracts at a strike of the test chain.
RawIvAt(k) ==
    LET i == CHOOSE j \in 1..Len(contracts) : contracts[j].strike = k
    IN  contracts[i].implied_volatility

\* C16 as stated: on the test chain the 30-DTE ATM IV lies strictly
\* between the raw IVs of the two strikes bracketing spot (500 and 505).
C16_StrictlyBetweenBracketingIvs ==
    IsTestChain /\ AtmIvCalled /\ last_call.day = 0 =>
        /\ last_call.result.kind = "float"
        /\ RawIvAt(500) < last_call.result.value
        /\ last_call.result.value < RawIvAt(505)

\* C16 as amended: on the test chain the 30-DTE ATM IV equals the raw IV
\* of the strike at spot, the lower of the two bracketing strikes' raw
\* IVs, and so lies between them without being strictly above the lower.
C16_EqualsIvOfStrikeAtSpot ==
    IsTestChain /\ AtmIvCalled /\ last_call.day = 0 =>
        /\ last_call.result.kind = "float"
        /\ last_call.result.value = RawIvAt(500)
        /\ last_call.result.value < RawIvAt(505)

C16_Witness ==
    /\ IsTestChain
    /\ last_call.fn = "compute_atm_iv"
    /\ last_call.day = 0
    /\ prev_call.fn = "compute_atm_iv_historical"
    /\ prev_call.day = 0
    /\ last_call.result = FloatResult(2000)
    /\ prev_call.result = FloatResult(2000)

\* C17: the live and the historical ATM-IV computation differ only in the
\* reference date: compute_atm_iv returns what compute_atm_iv_historical
\* returns for the same contracts, spot and target DTE with as_of = today.
C17_LiveEqualsHistoricalAsOfToday ==
    /\ last_call.fn = "compute_atm_iv"
    /\ prev_call.fn = "compute_atm_iv_historical"
    /\ last_call.day = prev_call.day
    => last_call.result = prev_call.result

\* C18: every TermStructure returned by compute_term_structure, the
\* degenerate ones included, has is_contango = (slope < 1) for the slope
\* stored in it.
C18_ContangoIffStoredSlopeBelowOne ==
    last_call.fn = "compute_term_structure" =>
        (last_call.result.value.is_contango <=> last_call.result.value.slope < 1000)

\* C19: every engine function is a pure function of its arguments: two
\* invocations of the same function with equal arguments (the arguments
\* never change here) return equal results, whenever they are made.
C19_EqualArgumentsEqualResults ==
    last_call.fn # "none" /\ last_call.fn = prev_call.fn =>
        last_call.result = prev_call.result

(***************************************************************************)
(* Properties of POST /api/scan, checked under SpecScan.                   *)
(***************************************************************************)
\* The background scans of trigger_scan that have not finished.
ManualScansUnfinished == Cardinality({t \in 1..Len(tasks) : tasks[t] # "done"})

\* What a POST /api/scan does, case by case.
TriggerScanCases ==
    IF scan_results # <<>> /\ scan_results[Len(scan_results)] = scan_day
    THEN /\ response' = [kind |-> "ScanResponse",
                         scanned_at |-> scan_results[Len(scan_results)],
                         cached |-> TRUE]
         /\ tasks' = tasks
    ELSE IF ManualScansUnfinished > 0
    THEN /\ response'.kind = "JSONResponse"
         /\ tasks' = tasks
    ELSE /\ response' = [kind |-> "JSONResponse", status |-> "scanning"]
         /\ Len(tasks') = Len(tasks) + 1
         /\ SubSeq(tasks', 1, Len(tasks)) = tasks
         /\ ManualScansUnfinished' = 1

RegimeStepCases ==
    \/ /\ surface.slope > 1050
       /\ regime' = "DANGER"
       /\ score' = score - 35000
       /\ flags' = <<FlagDanger>> \o flags
    \/ /\ surface.slope > 1000
       /\ surface.slope <= 1050
       /\ regime' = "CAUTION"
       /\ score' = score - 20000
       /\ flags' = <<FlagCaution>> \o flags
    \/ /\ surface.slope <= 1000
       /\ UNCHANGED <<regime, score, flags>>

C24_RegimeStepExactlyOneCase ==
    [][pc = "regime" /\ pc' # pc => RegimeStepCases]_vars

\* The CAUTION case, the flag landing before the flags collected earlier.
C24_Witness ==
    /\ pc = "escalate"
    /\ surface.slope = 1030
    /\ regime = "CAUTION"
    /\ Len(flags) >= 3
    /\ flags[1] = FlagCaution
    /\ flags[2] = FlagVrpBelowMin

\* C29: score_opportunity returns SELL PREMIUM only when the term slope is
\* < 0.95, rv_acceleration is <= 1.05 and the regime is NORMAL; with slope
\* >= 0.95 or rv_acceleration > 1.05 the score stays below 70.
C29_SellPremiumNeedsContangoAndCalmRv ==
    Returned =>
        /\ rec = "SELL PREMIUM" =>
              /\ surface.slope < 950
              /\ surface.rv_acceleration <= 1050
              /\ regime = "NORMAL"
        /\ (surface.slope >= 950 \/ surface.rv_acceleration > 1050) => score < 70

\* SELL PREMIUM at the edge: the 12 point slope band, rv_acceleration of
\* exactly 1.05 and a score of exactly 70.
C29_Witness ==
    /\ Returned
    /\ rec = "SELL PREMIUM"
    /\ surface.slope = 900
    /\ surface.rv_acceleration = 1050
    /\ score = 70

\* The expiries of the last compute_atm_iv call, nearest to target_dte first,
\* and the ATM IV of the k-th of them.
NearestExpiries ==
    LET expiry_dte == ExpiryDte(contracts, last_call.day)
    IN  StableSort(expiry_dte,
                   [i \in DOMAIN expiry_dte |-> Abs(expiry_dte[i][2] - target_dte)])

IvOfNearest(k) == AtmIvAtExpiry(contracts, spot_price, NearestExpiries[k][1])

ClosestUsable ==
    /\ Abs(NearestExpiries[1][2] - target_dte) <= 10
    /\ ~IsNone(IvOfNearest(1))

\* C25: in compute_atm_iv, when the closest expiry is within the tolerance
\* and both it and the second-closest have an ATM IV, the result lies
\* between the two IVs (rounded to 2 decimals) and equals the closest
\* expiry's IV when both expiries are on the same side of target_dte; when
\* the closest expiry is outside the tolerance or has no IV, the result is
\* the IV of the first of the three nearest expiries that has one, and
\* None only if none of them has.
C25_InterpolatesOrFallsBack ==
    (last_call.fn = "compute_atm_iv" /\ NearestExpiries # <<>>) =>
        LET n == Len(NearestExpiries)
            r == last_call.result
            first3 == {k \in 1..Min(3, n) : ~IsNone(IvOfNearest(k))}
        IN  /\ (ClosestUsable /\ n > 1 /\ ~IsNone(IvOfNearest(2))) =>
                 LET a == Round2(IvOfNearest(1))
                     b == Round2(IvOfNearest(2))
                 IN  /\ r.kind = "float"
                     /\ Min(a, b) <= r.value
                     /\ r.value <= Max(a, b)
                     /\ (NearestExpiries[1][2] - target_dte)
                          * (NearestExpiries[2][2] - target_dte) > 0
                        => r.value = a
            /\ ~ClosestUsable =>
                 IF first3 = {} THEN r.kind = "None"
                 ELSE r = FloatResult(Round2(IvOfNearest(SetMin(first3))))

\* Both expiries beyond the target and with different IVs: the result is
\* the closer one's.
C25_Witness ==
    /\ last_call.fn = "compute_atm_iv"
    /\ Len(NearestExpiries) = 2
    /\ NearestExpiries[1][2] = 35
    /\ NearestExpiries[2][2] = 60
    /\ ClosestUsable
    /\ ~IsNone(IvOfNearest(2))
    /\ Round2(IvOfNearest(1)) = 2000
    /\ Round2(IvOfNearest(2)) = 1900
    /\ last_call.result = FloatResult(2000)

\* The run_full_scan executions in progress: those of the tasks created by
\* POST /api/scan and the one the scheduler awaits.
ScansInProgress ==
    Cardinality({t \in 1..Len(tasks) : tasks[t] = "running"})
    + (IF cron_pc \in {"scanning", "retry_scanning"} THEN 1 ELSE 0)

\* C30: at most one run_full_scan execution is in progress at any time
\* across all initiators: a manual POST /api/scan starts none while the
\* scheduler's daily or retry scan is running, and the scheduler starts none
\* while a manually triggered scan is running.
C30_AtMostOneScanInProgress == ScansInProgress <= 1

(***************************************************************************)
(* Properties of the earnings endpoints, checked under SpecEarnings.       *)
(***************************************************************************)
\* The number of refreshes performed on the day of request i, up to and
\* including request i.
PerformedUpTo(i) ==
    Cardinality({j \in 1..i : refreshes[j].day = refreshes[i].day /\ refreshes[j].cleared})

\* At most 3 refreshes a day clear the cache and re-fetch.
AtMostThreeRefreshesADay ==
    \A d \in DOMAIN performed : performed[d] <= EARNINGS_REFRESH_LIMIT

\* A refresh request arriving after the day's 3 refreshes gets the empty
\* map with remaining = 0 and changes neither the tracker nor the cache.
FurtherRefreshChangesNothing ==
    (/\ Len(refreshes') = Len(refreshes) + 1
     /\ has_fmp_key
     /\ performed[earn_today] >= EARNINGS_REFRESH_LIMIT)
    => /\ tracker' = tracker
       /\ performed' = performed
       /\ SubSeq(refreshes', 1, Len(refreshes)) = refreshes
       /\ earn_reply' = EarningsReply("refresh", "empty", 0, Len(refreshes'))

\* GET /api/earnings/remaining reports 3 minus the refreshes of the day.
RemainingEndpointReports ==
    gets' = gets + 1 =>
        /\ earn_reply'.kind = "remaining"
        /\ earn_reply'.remaining = EARNINGS_REFRESH_LIMIT - performed[earn_today]
        /\ earn_reply'.remaining >= 0

\* A refresh response being sent.
RefreshReplies == earn_reply' # earn_reply /\ earn_reply'.kind = "refresh"

\* The response of a refresh reports 3 minus the refreshes performed on its
\* day, as of the moment it is sent.
RefreshReportsDayTotal ==
    RefreshReplies =>
        /\ earn_reply'.remaining
             = EARNINGS_REFRESH_LIMIT - performed'[refreshes'[earn_reply'.req].day]
        /\ earn_reply'.remaining >= 0

\* The response of a refresh reports 3 minus the refreshes performed on its
\* day up to and including itself.
RefreshReportsOwnOrdinal ==
    RefreshReplies =>
        LET i == earn_reply'.req
        IN  /\ earn_reply'.remaining >= 0
            /\ refreshes'[i].cleared
               => earn_reply'.remaining = EARNINGS_REFRESH_LIMIT - PerformedUpTo(i)
            /\ ~refreshes'[i].cleared => earn_reply'.remaining = 0

\* C21 as stated: at most 3 refreshes a day clear the cache and re-fetch,
\* under any interleaving; every further call that day returns an empty map
\* with remaining = 0 and changes no state; the remaining count reported by
\* the refresh and by GET /api/earnings/remaining equals 3 minus the number
\* of refreshes performed that day, is never negative, and is 3 again on the
\* next day.
C21_RemainingIsThreeMinusRefreshesOfDay ==
    /\ []AtMostThreeRefreshesADay
    /\ [][/\ FurtherRefreshChangesNothing
          /\ RemainingEndpointReports
          /\ RefreshReportsDayTotal]_vars

\* C21, amended: the count a refresh reports is 3 minus the refreshes
\* performed that day up to and including itself; the rest is as stated.
C21_RefreshReportsRemainingAsOfItsStart ==
    /\ []AtMostThreeRefreshesADay
    /\ [][/\ FurtherRefreshChangesNothing
          /\ RemainingEndpointReports
          /\ RefreshReportsOwnOrdinal]_vars

\* Day 0 used up its 3 refreshes and a fourth request was turned away; the
\* first refresh answers last, with the remaining = 2 it computed at its start.
C21_Witness ==
    /\ earn_today = 0
    /\ performed[0] = EARNINGS_REFRESH_LIMIT
    /\ Len(refreshes) = 4
    /\ ~refreshes[4].cleared
    /\ earn_reply = EarningsReply("refresh", "results", 2, 1)

(***************************************************************************)
(* Properties of the scan_results table, checked under SpecScanTable.      *)
(***************************************************************************)
\* What the k-th store_scan_result call stored, as get_latest_scan gives it back.
StoredBy(k) ==
    LET args == ScanArgs(k, payload_period)
    IN  [kind |-> "dict", id |-> k, scanned_at |-> args.scanned_at,
         regime |-> args.regime, tickers |-> args.tickers,
         historical |-> args.historical]

\* C22: after any sequence of store_scan_result calls the scan_results table
\* holds at most 50 rows, namely the most recently stored ones, and
\* get_latest_scan returns the result stored by the last call (None only if
\* nothing was ever stored).
C22_KeepsLatestFiftyAndReturnsLast ==
    /\ Cardinality(scan_table) <= 50
    /\ Cardinality(scan_table) = Min(50, scan_seq)
    /\ \A r \in scan_table :
          /\ r.id > scan_seq - 50
          /\ r.id <= scan_seq
          /\ r.scanned_at = r.id
          /\ r.regime = JsonDumps(ScanArgs(r.id, payload_period).regime)
    /\ latest_scan.result.kind # "pending" =>
          IF latest_scan.after = 0 THEN latest_scan.result = [kind |-> "None"]
          ELSE latest_scan.result = StoredBy(latest_scan.after)

\* 52 results were stored, the first two are gone and the latest one is read.
C22_Witness ==
    /\ scan_seq = 52
    /\ Cardinality(scan_table) = 50
    /\ \A r \in scan_table : r.id >= 3
    /\ latest_scan = [after |-> 52, result |-> StoredBy(52)]

(***************************************************************************)
(* Properties of the daily_iv table, checked under SpecDailyIv.            *)
(***************************************************************************)
\* The dates written for a ticker that a lookback of n days reaches.
DatesInWindow(ticker, n) ==
    {k[2] : k \in {q \in DOMAIN written : q[1] = ticker /\ q[2] >= db_today - (3 * n) \div 2}}

\* The i-th latest of a set of dates.
IthLatest(dates, i) == CHOOSE d \in dates : Cardinality({e \in dates : e > d}) = i - 1

SkewChain ==
    LET expiry_dte == ExpiryDte(skew_contracts, 0)
        nearest == CHOOSE i \in DOMAIN expiry_dte :
                      \A j \in DOMAIN expiry_dte :
                         \/ Abs(expiry_dte[i][2] - SkewTargetDte)
                              < Abs(expiry_dte[j][2] - SkewTargetDte)
                         \/ /\ Abs(expiry_dte[i][2] - SkewTargetDte)
                                 = Abs(expiry_dte[j][2] - SkewTargetDte)
                            /\ i <= j
    IN  SelectSeq(skew_contracts,
                  LAMBDA c : c.expiration = expiry_dte[nearest][1]
                             /\ c.implied_volatility > 0)

\* Whether a contract qualifies for a point in delta mode, and in moneyness mode.
QualifiesByDelta(c) ==
    /\ c.contract_type \in {"put", "call"}
    /\ c.delta # <<>>
    /\ IF c.contract_type = "put"
       THEN -9000 < c.delta[1] /\ c.delta[1] < -500
       ELSE 500 < c.delta[1] /\ c.delta[1] < 9000

QualifiesByMoneyness(c) ==
    /\ c.contract_type \in {"put", "call"}
    /\ IF c.contract_type = "put"
       THEN 8 * skew_spot < 10 * c.strike /\ c.strike < skew_spot
       ELSE skew_spot < c.strike /\ 10 * c.strike < 12 * skew_spot

\* Exactly one mode is used: delta mode if and only if a valid-IV contract
\* of the chosen expiry carries a delta; the points are then the contracts
\* qualifying in that mode, and no others.
OneSkewMode ==
    LET any_delta == \E i \in DOMAIN SkewChain : SkewChain[i].delta # <<>>
        sources == {i \in DOMAIN SkewChain :
                       IF any_delta THEN QualifiesByDelta(SkewChain[i])
                       ELSE QualifiesByMoneyness(SkewChain[i])}
    IN  /\ skew_result.mode = "delta" <=> any_delta
        /\ Len(skew_result.points) = Cardinality(sources)
        /\ \A k \in DOMAIN skew_result.points :
              \E i \in sources :
                 skew_result.points[k].contract_type = SkewChain[i].contract_type

\* C26 as stated: compute_skew uses exactly one of two modes and never mixes
\* them; in delta mode every point's delta magnitude lies strictly between
\* 5 and 90, in moneyness mode the pseudo-delta is clamped to [5, 50]; in
\* both modes every SkewPoint has a positive IV and a delta in [0, 100].
C26_PointsStrictlyInsideAndPositive ==
    skew_result.mode \in {"delta", "moneyness"} =>
        /\ OneSkewMode
        /\ \A k \in DOMAIN skew_result.points :
              LET p == skew_result.points[k]
              IN  /\ p.iv > 0
                  /\ p.delta >= 0
                  /\ p.delta <= 1000
                  /\ skew_result.mode = "delta" => (50 < p.delta /\ p.delta < 900)
                  /\ skew_result.mode = "moneyness" => (50 <= p.delta /\ p.delta <= 500)

\* C26, amended: the delta of a point is rounded to one decimal and its IV
\* to two, so that in delta mode a point's delta lies between 5 and 90
\* inclusive and the IV of a point is never negative.
C26_PointsInsideAfterRounding ==
    skew_result.mode \in {"delta", "moneyness"} =>
        /\ OneSkewMode
        /\ \A k \in DOMAIN skew_result.points :
              LET p == skew_result.points[k]
              IN  /\ p.iv >= 0
                  /\ p.delta >= 0
                  /\ p.delta <= 1000
                  /\ skew_result.mode = "delta" => (50 <= p.delta /\ p.delta <= 900)
                  /\ skew_result.mode = "moneyness" => (50 <= p.delta /\ p.delta <= 500)

\* Delta mode with a put whose delta of -0.0504 becomes a point of delta 5.0,
\* next to a contract without delta that would qualify by moneyness and is
\* left out.
C26_Witness ==
    /\ skew_result.mode = "delta"
    /\ skew_result.points = <<SkewPoint(50, 2000, "put")>>
    /\ \E i \in DOMAIN SkewChain :
          /\ SkewChain[i].delta = <<>>
          /\ QualifiesByMoneyness(SkewChain[i])

(***************************************************************************)
(* Properties of MarketDataClient._get, checked under SpecGet.             *)
(***************************************************************************)
GetDone == get_pc = "done"

\* At most 5 requests, and the limiter acquired exactly once before each.
OneAcquirePerRequest ==
    /\ Len(responses) <= 5
    /\ acquires = Len(responses) + (IF get_pc = "request" THEN 1 ELSE 0)

\* The call never hangs short of its end, and attempt only moves forward.
GetRunsToItsEnd ==
    /\ attempt \in 0..5
    /\ get_pc \in {"acquire", "request", "sleep", "done"}
    /\ ~GetDone => ENABLED NextGet
    /\ GetDone <=> get_outcome.kind # "pending"

\* A 403 or a 402 is the last answer of the call and raises PermissionError.
PermissionErrorAtOnce ==
    \A i \in DOMAIN responses :
        responses[i] \in {"403", "402"} =>
            /\ i = Len(responses)
            /\ GetDone
            /\ get_outcome = GetRaises("PermissionError")

\* Another HTTP error or a transport error is re-raised on the 5th attempt only.
OtherErrorsRetried ==
    \A i \in DOMAIN responses :
        responses[i] \in {"500", "transport"} =>
            IF i = 5
            THEN /\ GetDone
                 /\ get_outcome =
                        GetRaises(IF responses[i] = "500" THEN "HTTPStatusError" ELSE "RequestError")
            ELSE ~(GetDone /\ i = Len(responses))

\* The answers that decide the other endings.
LastAnswer == responses[Len(responses)]
FiveConsecutive429 == Len(responses) = 5 /\ \A i \in 1..5 : responses[i] = "429"
FifthAnswered429 == Len(responses) = 5 /\ responses[5] = "429"

EndsWithDataOrRaise ==
    GetDone =>
        /\ get_outcome.kind \in {"return", "raise"}
        /\ get_outcome = GetReturns("data") <=> LastAnswer = "ok"
        /\ get_outcome.kind = "raise" <=>
               LastAnswer \in {"403", "402", "bad_json", "500", "transport"}

\* C27 as stated: every call of _get ends after at most 5 requests, with one
\* limiter acquisition before each; it returns the data, or returns an empty
\* result exactly on a status error/no_data or after 5 consecutive 429
\* answers, or raises; a 403 or 402 raises PermissionError at once; other
\* HTTP and transport errors are retried and re-raised on the 5th attempt.
C27_EmptyOnlyAfterFiveConsecutive429 ==
    /\ OneAcquirePerRequest
    /\ GetRunsToItsEnd
    /\ PermissionErrorAtOnce
    /\ OtherErrorsRetried
    /\ EndsWithDataOrRaise
    /\ (GetDone /\ get_outcome = GetReturns("empty")) =>
           (LastAnswer \in {"error", "no_data"} \/ FiveConsecutive429)

\* C27, amended: as stated, except that the empty result of the 429 case is
\* returned whenever the 5th request is answered 429, whatever the earlier
\* four requests were answered with (429, or an error that was retried).
C27_EmptyWhenFifthAnswered429 ==
    /\ OneAcquirePerRequest
    /\ GetRunsToItsEnd
    /\ PermissionErrorAtOnce
    /\ OtherErrorsRetried
    /\ EndsWithDataOrRaise
    /\ GetDone =>
           (get_outcome = GetReturns("empty") <=>
                (LastAnswer \in {"error", "no_data"} \/ FifthAnswered429))

\* A call that was retried after an error and ended empty on a 429 to its 5th request.
C27_Witness ==
    /\ GetDone
    /\ get_outcome = GetReturns("empty")
    /\ FifthAnswered429
    /\ ~FiveConsecutive429
    /\ acquires = 5

(***************************************************************************)
(* Properties of append_daily_csv, checked under SpecCsv.                  *)
(***************************************************************************)
\* The calendar day an as_of text stands for, and the order of the calendar.
DayOf(as_of) == CHOOSE day \in CsvDays : IsoDate(day) = as_of
DayNumber(day) == (day.y * 12 + (day.m - 1)) * 31 + (day.d - 1)

StrictlyDescendingDates ==
    \A i \in 1..(Len(csv_file.rows) - 1) :
        DayNumber(DayOf(csv_file.rows[i].date)) > DayNumber(DayOf(csv_file.rows[i + 1].date))

NoDateTwice ==
    \A i, j \in DOMAIN csv_file.rows :
        csv_file.rows[i].date = csv_file.rows[j].date => i = j

RowDates(file) == { file.rows[i].date : i \in DOMAIN file.rows }
RowSet(file) == { file.rows[i] : i \in DOMAIN file.rows }

\* A call with a date the file holds changes nothing; any call keeps every row.
KnownDateLeavesFileAlone ==
    /\ (csv_file.exists /\ csv_call'.as_of \in RowDates(csv_file)) => csv_file' = csv_file
    /\ RowSet(csv_file) \subseteq RowSet(csv_file')
    /\ csv_call'.as_of \in RowDates(csv_file')

\* C28: after any sequence of append_daily_csv calls the data rows are in
\* strictly descending date order, no two rows share a date, and a call
\* whose date is present leaves the file unchanged, so that the first row
\* written for a date stays.
C28_DescendingUniqueAndFirstRowKept ==
    /\ [](StrictlyDescendingDates /\ NoDateTwice)
    /\ [][KnownDateLeavesFileAlone]_vars

\* All five days are in the file and the latest call brought other metrics
\* for a day the file already held.
C28_Witness ==
    /\ Len(csv_file.rows) = 5
    /\ csv_call.made
    /\ ~csv_call.wrote
    /\ \E i \in DOMAIN csv_file.rows :
           /\ csv_file.rows[i].date = csv_call.as_of
           /\ csv_file.rows[i] # NewRow(csv_call.as_of, csv_call.metrics)

====
